---- MODULE Spec2Model ----
(***************************************************************************)
(* A model of casadi::CodeGenerator (casadi/core/function/                 *)
(* code_generator.cpp): one generator session, its constant pools, its     *)
(* sparsity registry, its auxiliary-routine catalogue and the text it      *)
(* renders.                                                                *)
(*                                                                         *)
(* Conventions.  C++ containers are 0-based, TLA+ sequences 1-based: slot  *)
(* i of a pool is element i+1 of the sequence.  A stringstream is a        *)
(* sequence of chunks, each chunk a tuple of tokens in the order the code  *)
(* streams until an endl, so a chunk is a line.  A name is a sequence of    *)
(* one-character strings.  The doubles of the model are the whole-number   *)
(* doubles 0.0, 1.0, ..., written 0, 1, ...; the machine word hash() reads *)
(* through reinterpret_cast is taken to be that number.  An exception      *)
(* leaves the object as the code left it at the throw and is recorded in   *)
(* last.err.                                                               *)
(***************************************************************************)
EXTENDS Integers, Sequences, FiniteSets, TLC

VARIABLES
  status,                   \* "ready": constructed; "failed": the constructor threw
  verbose, mex, cpp, main, real_t, codegen_scalars, with_header,
  includes, added_includes_,
  added_externals_,
  auxiliaries, added_auxiliaries_,
  integer_constants_, added_integer_constants_,
  double_constants_, added_double_constants_,
  added_sparsities_,
  body, header, exposed_fname,
  last,                     \* the last call: [op, arg, ret, err]
  first_int, first_double,  \* history: value sequence -> slot its first request returned
  first_sp,                 \* history: pattern object -> slot its first registration returned
  asked                     \* history: the auxiliary tags requested so far

optVars   == <<verbose, mex, cpp, main, real_t, codegen_scalars, with_header>>
inclVars  == <<includes, added_includes_, added_externals_>>
auxVars   == <<auxiliaries, added_auxiliaries_>>
intVars   == <<integer_constants_, added_integer_constants_>>
dblVars   == <<double_constants_, added_double_constants_>>
textVars  == <<body, header, exposed_fname>>
histVars  == <<first_int, first_double, first_sp, asked>>
session   == <<optVars, inclVars, auxVars, intVars, dblVars, added_sparsities_, textVars>>
vars      == <<status, session, last, histVars>>

(***************************************************************************)
(* Bounds of the model.                                                    *)
(***************************************************************************)
\* the width, in bits, the model gives size_t
HashBits == 2
\* the largest number of entries a constant pool is driven to
MaxPool == 3

NoError == "none"
Min(S) == CHOOSE x \in S : \A y \in S : x <= y
Max(S) == CHOOSE x \in S : \A y \in S : x >= y

(***************************************************************************)
(* Hashing.                                                                *)
(***************************************************************************)
RECURSIVE BitXor(_, _)
BitXor(a, b) ==
  IF a = 0 THEN b
  ELSE IF b = 0 THEN a
  ELSE (((a % 2) + (b % 2)) % 2) + (2 * BitXor(a \div 2, b \div 2))

WordMod == 2 ^ HashBits

\* seed ^= v + 0x9e3779b9 + (seed<<6) + (seed>>2), on size_t;
\* 506952121 is 0x9e3779b9 modulo 2^31, the same number modulo every narrower width
hash_combine(seed, v) ==
  BitXor(seed, (v + 506952121 + (seed * 64) + (seed \div 4)) % WordMod) % WordMod

RECURSIVE hash_fold(_, _)
hash_fold(seed, v) ==
  IF v = <<>> THEN seed ELSE hash_fold(hash_combine(seed, Head(v)), Tail(v))

\* hash(const std::vector<double>&): the words of v combined in order
hash_double(v) == IF v /= <<>> THEN hash_fold(0, v) ELSE 0

\* hash(const std::vector<int>&)
hash_int(v) == hash_fold(0, v)

\* equal(v1, v2): true equality of two value sequences
equal(v1, v2) == v1 = v2

(***************************************************************************)
(* The constant pools.  A multimap<size_t, size_t> is the sequence of its  *)
(* (hash, slot) pairs in insertion order; equal_range(h) is the            *)
(* subsequence with key h.                                                 *)
(***************************************************************************)
equal_range(added, h) == SelectSeq(added, LAMBDA e : e.first = h)

\* the result of getConstant(v, allow_adding) on one pool:
\* what it returns or throws, and the pool and its hash index afterwards
GetConstantMutSkipEq(h, v, allow_adding, constants, added) ==
  LET eq   == equal_range(added, h)
  IN  IF Len(eq) > 0
      THEN [ret |-> eq[1].second, err |-> NoError,
            constants |-> constants, added |-> added]
      ELSE IF allow_adding
      THEN [ret |-> Len(constants), err |-> NoError,
            constants |-> Append(constants, v),
            added |-> Append(added, [first |-> h, second |-> Len(constants)])]
      ELSE [ret |-> -1, err |-> "Constant not found",
            constants |-> constants, added |-> added]

GetConstantMutNoProbe(h, v, allow_adding, constants, added) ==
  IF allow_adding
  THEN [ret |-> Len(constants), err |-> NoError,
        constants |-> Append(constants, v),
        added |-> Append(added, [first |-> h, second |-> Len(constants)])]
  ELSE [ret |-> -1, err |-> "Constant not found",
        constants |-> constants, added |-> added]

GetConstantMutAddOnMiss(h, v, allow_adding, constants, added) ==
  LET eq   == equal_range(added, h)
      hits == {k \in 1..Len(eq) : equal(v, constants[eq[k].second + 1])}
  IN  IF hits /= {}
      THEN [ret |-> eq[Min(hits)].second, err |-> NoError,
            constants |-> constants, added |-> added]
      ELSE IF allow_adding
      THEN [ret |-> Len(constants), err |-> NoError,
            constants |-> Append(constants, v),
            added |-> Append(added, [first |-> h, second |-> Len(constants)])]
      ELSE [ret |-> -1, err |-> "Constant not found",
            constants |-> Append(constants, v),
            added |-> Append(added, [first |-> h, second |-> Len(constants)])]

GetConstant(h, v, allow_adding, constants, added) ==
  LET eq   == equal_range(added, h)
      hits == {k \in 1..Len(eq) : equal(v, constants[eq[k].second + 1])}
  IN  IF hits /= {}
      THEN [ret |-> eq[Min(hits)].second, err |-> NoError,
            constants |-> constants, added |-> added]
      ELSE IF allow_adding
      THEN [ret |-> Len(constants), err |-> NoError,
            constants |-> Append(constants, v),
            added |-> Append(added, [first |-> h, second |-> Len(constants)])]
      ELSE [ret |-> -1, err |-> "Constant not found",
            constants |-> constants, added |-> added]

(***************************************************************************)
(* Includes and construction.                                              *)
(***************************************************************************)
\* addInclude on the pair (includes, added_includes_)
AddInclude(inc, new_include, relative_path, use_ifdef) ==
  IF new_include \in inc.added
  THEN inc
  ELSE [added |-> inc.added \cup {new_include},
        text  |-> inc.text
                  \o (IF use_ifdef /= "" THEN << <<"#ifdef ", use_ifdef>> >> ELSE <<>>)
                  \o (IF relative_path
                      THEN << <<"#include \"", new_include, "\"">> >>
                      ELSE << <<"#include <", new_include, ">">> >>)
                  \o (IF use_ifdef /= "" THEN << <<"#endif">> >> ELSE <<>>)]

OptionKeys ==
  {"verbose", "mex", "cpp", "main", "real_t", "codegen_scalars", "with_header"}

Opt(opts, key, default) == IF key \in DOMAIN opts THEN opts[key] ELSE default

PrintfMex ==
  << <<"#ifdef MATLAB_MEX_FILE">>, <<"#define PRINTF mexPrintf">>, <<"#else">>,
     <<"#define PRINTF printf">>, <<"#endif">> >>
PrintfStd == << <<"#define PRINTF printf">> >>

EmptyMap == [x \in {} |-> 0]

\* the members no constructor statement assigns: default-constructed
FreshMembers ==
  /\ added_externals_ = {}
  /\ added_auxiliaries_ = {}
  /\ integer_constants_ = <<>> /\ added_integer_constants_ = <<>>
  /\ double_constants_ = <<>> /\ added_double_constants_ = <<>>
  /\ added_sparsities_ = EmptyMap
  /\ body = <<>> /\ header = <<>> /\ exposed_fname = <<>>
  /\ first_int = EmptyMap /\ first_double = EmptyMap /\ first_sp = EmptyMap /\ asked = {}

\* the state the constructor leaves when it reads opts; given is the dictionary
\* the caller passed
Constructed(opts, given) ==
  LET bad  == DOMAIN opts \ OptionKeys
      inc0 == [added |-> {}, text |-> <<>>]
      inc1 == IF Opt(opts, "main", FALSE)
              THEN AddInclude(inc0, "stdio.h", FALSE, "") ELSE inc0
      inc2 == IF Opt(opts, "mex", FALSE) \/ Opt(opts, "main", FALSE)
              THEN AddInclude(inc1, "string.h", FALSE, "") ELSE inc1
      inc3 == IF Opt(opts, "mex", FALSE)
              THEN AddInclude(inc2, "mex.h", FALSE, "MATLAB_MEX_FILE") ELSE inc2
  IN  /\ FreshMembers
      /\ IF bad /= {}
         THEN /\ status = "failed"
              /\ last = [op |-> "CodeGenerator", arg |-> given, ret |-> -1,
                         err |-> <<"Unrecongnized option: ", CHOOSE k \in bad : TRUE>>]
              /\ verbose = FALSE /\ mex = FALSE /\ cpp = FALSE /\ main = FALSE
              /\ real_t = "double" /\ codegen_scalars = FALSE /\ with_header = FALSE
              /\ includes = <<>> /\ added_includes_ = {}
              /\ auxiliaries = <<>>
         ELSE /\ status = "ready"
              /\ last = [op |-> "CodeGenerator", arg |-> given, ret |-> 0, err |-> NoError]
              /\ verbose = Opt(opts, "verbose", FALSE)
              /\ mex = Opt(opts, "mex", FALSE)
              /\ cpp = Opt(opts, "cpp", FALSE)
              /\ main = Opt(opts, "main", FALSE)
              /\ real_t = Opt(opts, "real_t", "double")
              /\ codegen_scalars = Opt(opts, "codegen_scalars", FALSE)
              /\ with_header = Opt(opts, "with_header", FALSE)
              /\ includes = inc3.text /\ added_includes_ = inc3.added
              /\ auxiliaries = IF Opt(opts, "mex", FALSE) THEN PrintfMex ELSE PrintfStd

CodeGeneratorMutIgnore(opts) ==
  Constructed([k \in DOMAIN opts \cap OptionKeys |-> opts[k]], opts)

\* CodeGenerator::CodeGenerator(const Dict& opts)
CodeGenerator(opts) == Constructed(opts, opts)

(***************************************************************************)
(* Sparsity patterns.  A pattern object has an identity (the address       *)
(* sp.get() returns) and a structure; two objects may share a structure.   *)
(***************************************************************************)
Patterns == {"spA", "spB", "spC"}

structure(sp) ==
  CASE sp = "spA" -> [nrow |-> 1, ncol |-> 1, colind |-> <<0, 1>>, row |-> <<0>>]
    [] sp = "spB" -> [nrow |-> 1, ncol |-> 1, colind |-> <<0, 1>>, row |-> <<0>>]
    [] sp = "spC" -> [nrow |-> 1, ncol |-> 1, colind |-> <<0, 0>>, row |-> <<>>]

\* Sparsity::compress: [row_count, col_count, colptr[0..col_count], rowidx[0..nnz-1]]
compress(sp) ==
  <<structure(sp).nrow, structure(sp).ncol>> \o structure(sp).colind \o structure(sp).row

(***************************************************************************)
(* The inputs of the pool operations.                                      *)
(***************************************************************************)
\* <<1>> and <<1, 1, 0, 1, 0>> have one hash, and so have <<>> and compress("spC")
IntVecs == {<<>>, <<1>>, <<1, 1, 0, 1, 0>>}
\* two sequences of doubles with one hash
DoubleVecs == {<<0, 1>>, <<1, 0>>}

Record(first, v, r) ==
  IF r.err = NoError /\ v \notin DOMAIN first THEN first @@ (v :> r.ret) ELSE first

(***************************************************************************)
(* Operations on the pools and the registry.                               *)
(***************************************************************************)
getConstant_double(v, allow_adding) ==
  /\ status = "ready"
  /\ LET r == GetConstant(hash_double(v), v, allow_adding,
                          double_constants_, added_double_constants_)
     IN  /\ Len(r.constants) <= MaxPool
         /\ double_constants_' = r.constants
         /\ added_double_constants_' = r.added
         /\ first_double' = Record(first_double, v, r)
         /\ last' = [op |-> "getConstant_double", arg |-> <<v, allow_adding>>,
                     ret |-> r.ret, err |-> r.err]
  /\ UNCHANGED <<status, optVars, inclVars, auxVars, intVars, added_sparsities_,
                 textVars, first_int, first_sp, asked>>

getConstant_int(v, allow_adding) ==
  /\ status = "ready"
  /\ LET r == GetConstant(hash_int(v), v, allow_adding,
                          integer_constants_, added_integer_constants_)
     IN  /\ Len(r.constants) <= MaxPool
         /\ integer_constants_' = r.constants
         /\ added_integer_constants_' = r.added
         /\ first_int' = Record(first_int, v, r)
         /\ last' = [op |-> "getConstant_int", arg |-> <<v, allow_adding>>,
                     ret |-> r.ret, err |-> r.err]
  /\ UNCHANGED <<status, optVars, inclVars, auxVars, dblVars, added_sparsities_,
                 textVars, first_double, first_sp, asked>>

AddSparsityMutAlways(sp, sparsities, constants, added) ==
  LET sp_compact == compress(sp)
      r == GetConstant(hash_int(sp_compact), sp_compact, TRUE, constants, added)
  IN  [ret |-> r.ret, calls |-> <<"compress", "getConstant">>,
       sparsities |-> [x \in DOMAIN sparsities \cup {sp} |->
                         IF x = sp THEN r.ret ELSE sparsities[x]],
       constants |-> r.constants, added |-> r.added, got |-> r]

AddSparsityMutAppend(sp, sparsities, constants, added) ==
  LET fresh == sp \notin DOMAIN sparsities
      sp_compact == compress(sp)
      r == GetConstantMutNoProbe(hash_int(sp_compact), sp_compact, TRUE, constants, added)
  IN  IF fresh
      THEN [ret |-> r.ret, calls |-> <<"compress", "getConstant">>,
            sparsities |-> sparsities @@ (sp :> r.ret),
            constants |-> r.constants, added |-> r.added, got |-> r]
      ELSE [ret |-> sparsities[sp], calls |-> <<>>,
            sparsities |-> sparsities,
            constants |-> constants, added |-> added,
            got |-> [ret |-> -1, err |-> "no call"]]

\* addSparsity on (registry, integer pool): the slot, the nested calls made, and
\* the registry and the pool afterwards
AddSparsity(sp, sparsities, constants, added) ==
  LET fresh == sp \notin DOMAIN sparsities
      sp_compact == compress(sp)
      r == GetConstant(hash_int(sp_compact), sp_compact, TRUE, constants, added)
  IN  IF fresh
      THEN [ret |-> r.ret, calls |-> <<"compress", "getConstant">>,
            sparsities |-> sparsities @@ (sp :> r.ret),
            constants |-> r.constants, added |-> r.added, got |-> r]
      ELSE [ret |-> sparsities[sp], calls |-> <<>>,
            sparsities |-> sparsities,
            constants |-> constants, added |-> added,
            got |-> [ret |-> -1, err |-> "no call"]]

addSparsity(sp) ==
  /\ status = "ready"
  /\ LET a == AddSparsity(sp, added_sparsities_, integer_constants_,
                          added_integer_constants_)
     IN  /\ Len(a.constants) <= MaxPool
         /\ added_sparsities_' = a.sparsities
         /\ integer_constants_' = a.constants
         /\ added_integer_constants_' = a.added
         /\ first_int' = Record(first_int, compress(sp), a.got)
         /\ first_sp' = IF sp \in DOMAIN first_sp THEN first_sp
                         ELSE first_sp @@ (sp :> a.ret)
         /\ last' = [op |-> "addSparsity", arg |-> sp, ret |-> a.ret, err |-> NoError,
                     calls |-> a.calls]
  /\ UNCHANGED <<status, optVars, inclVars, auxVars, dblVars, textVars,
                 first_double, asked>>

get_sparsity_mut(sp) ==
  /\ status = "ready"
  /\ added_sparsities_' = IF sp \in DOMAIN added_sparsities_ THEN added_sparsities_
                           ELSE added_sparsities_ @@ (sp :> 0)
  /\ last' = [op |-> "get_sparsity", arg |-> sp, ret |-> added_sparsities_'[sp],
              err |-> NoError]
  /\ UNCHANGED <<status, optVars, inclVars, auxVars, intVars, dblVars, textVars,
                 histVars>>

get_sparsity(sp) ==
  /\ status = "ready"
  /\ last' = IF sp \in DOMAIN added_sparsities_
             THEN [op |-> "get_sparsity", arg |-> sp, ret |-> added_sparsities_[sp],
                   err |-> NoError]
             ELSE [op |-> "get_sparsity", arg |-> sp, ret |-> -1,
                   err |-> "it!=added_sparsities_.end()"]
  /\ UNCHANGED <<status, session, histVars>>

(***************************************************************************)
(* The pools and the registry under every sequence of requests.            *)
(***************************************************************************)
NoOptions == EmptyMap

InitPool == CodeGenerator(NoOptions)

NextPool ==
  \/ \E v \in DoubleVecs, allow_adding \in BOOLEAN : getConstant_double(v, allow_adding)
  \/ \E v \in IntVecs, allow_adding \in BOOLEAN : getConstant_int(v, allow_adding)
  \/ \E sp \in Patterns : addSparsity(sp)
  \/ \E sp \in Patterns : get_sparsity(sp)

SpecPool == InitPool /\ [][NextPool]_vars

(***************************************************************************)
(* Auxiliary routines.                                                     *)
(***************************************************************************)
Auxiliary ==
  {"AUX_COPY", "AUX_SWAP", "AUX_SCAL", "AUX_AXPY", "AUX_DOT", "AUX_BILIN",
   "AUX_RANK1", "AUX_ASUM", "AUX_IAMAX", "AUX_NRM2", "AUX_FILL", "AUX_MTIMES",
   "AUX_SQ", "AUX_SIGN", "AUX_PROJECT", "AUX_TRANS", "AUX_TO_MEX", "AUX_FROM_MEX"}

\* what one case of the switch streams into this->auxiliaries
AuxSource(f) ==
  CASE f = "AUX_COPY"  -> << <<"codegen_str_copy", "codegen_str_copy_define">>, <<>> >>
    [] f = "AUX_SWAP"  -> << <<"codegen_str_swap", "codegen_str_swap_define">> >>
    [] f = "AUX_SCAL"  -> << <<"codegen_str_scal", "codegen_str_scal_define">> >>
    [] f = "AUX_AXPY"  -> << <<"codegen_str_axpy", "codegen_str_axpy_define">> >>
    [] f = "AUX_DOT"   -> << <<"codegen_str_dot", "codegen_str_dot_define">>, <<>> >>
    [] f = "AUX_BILIN" -> << <<"codegen_str_bilin", "codegen_str_bilin_define">>, <<>> >>
    [] f = "AUX_RANK1" -> << <<"codegen_str_rank1", "codegen_str_rank1_define">>, <<>> >>
    [] f = "AUX_ASUM"  -> << <<"codegen_str_asum", "codegen_str_asum_define">> >>
    [] f = "AUX_IAMAX" -> << <<"codegen_str_iamax", "codegen_str_iamax_define">> >>
    [] f = "AUX_NRM2"  -> << <<"codegen_str_nrm2", "codegen_str_nrm2_define">> >>
    [] f = "AUX_FILL"  -> << <<"codegen_str_fill", "codegen_str_fill_define">>, <<>> >>
    [] f = "AUX_MTIMES" -> << <<"codegen_str_mtimes", "codegen_str_mtimes_define">> >>
    [] f = "AUX_SQ" ->
         << <<"real_t CASADI_PREFIX(sq)(real_t x) ", "{ return x*x;}">>,
            <<"#define sq(x) CASADI_PREFIX(sq)(x)">>, <<>> >>
    [] f = "AUX_SIGN" ->
         << <<"real_t CASADI_PREFIX(sign)(real_t x) ", "{ return x<0 ? -1 : x>0 ? 1 : x;}">>,
            <<"#define sign(x) CASADI_PREFIX(sign)(x)">>, <<>> >>
    [] f = "AUX_PROJECT" ->
         << <<"codegen_str_project", "codegen_str_project_define">>, <<>> >>
    [] f = "AUX_TRANS" ->
         << <<"codegen_str_trans",
              "#define trans(x, sp_x, y, sp_y, tmp) CASADI_PREFIX(trans)(x, sp_x, y, sp_y, tmp)">>,
            <<>> >>
    [] f = "AUX_TO_MEX" ->
         << <<"#ifdef MATLAB_MEX_FILE">>,
            <<"mxArray* CASADI_PREFIX(to_mex)(const int* sp, const real_t* x) {">>,
            <<"  return p;">>, <<"}">>,
            <<"#define to_mex(sp, x) CASADI_PREFIX(to_mex)(sp, x)">>,
            <<"#endif">>, <<>> >>
    [] f = "AUX_FROM_MEX" ->
         << <<"#ifdef MATLAB_MEX_FILE">>,
            <<"real_t* CASADI_PREFIX(from_mex)(const mxArray *p, ",
              "real_t* y, const int* sp, real_t* w) {">>,
            <<"    fill(y, nnz, v);">>,
            <<"  return y;">>, <<"}">>,
            <<"#define from_mex(p, y, sp, w) CASADI_PREFIX(from_mex)(p, y, sp, w)">>,
            <<"#endif">>, <<>> >>

RECURSIVE AddAuxiliaryMutNoGuard(_, _)
AddAuxiliaryMutNoGuard(aux, f) ==
  LET a1 == [added |-> aux.added \cup {f}, text |-> aux.text]
      a2 == IF f = "AUX_FROM_MEX" THEN AddAuxiliaryMutNoGuard(a1, "AUX_FILL") ELSE a1
  IN  [added |-> a2.added, text |-> a2.text \o AuxSource(f)]

RECURSIVE AddAuxiliaryMutLate(_, _)
AddAuxiliaryMutLate(aux, f) ==
  IF f \in aux.added
  THEN aux
  ELSE LET a1 == [added |-> aux.added \cup {f}, text |-> aux.text \o AuxSource(f)]
       IN  IF f = "AUX_FROM_MEX" THEN AddAuxiliaryMutLate(a1, "AUX_FILL") ELSE a1

\* addAuxiliary on the pair (auxiliaries, added_auxiliaries_)
RECURSIVE AddAuxiliary(_, _)
AddAuxiliary(aux, f) ==
  IF f \in aux.added
  THEN aux
  ELSE LET a1 == [added |-> aux.added \cup {f}, text |-> aux.text]
           a2 == IF f = "AUX_FROM_MEX" THEN AddAuxiliary(a1, "AUX_FILL") ELSE a1
       IN  [added |-> a2.added, text |-> a2.text \o AuxSource(f)]

Digit == <<"0", "1", "2", "3", "4", "5", "6", "7", "8", "9">>

\* to_string(int): the decimal digits, as operator<< writes an int
RECURSIVE to_string(_)
to_string(n) ==
  IF n < 0 THEN <<"-">> \o to_string(-n)
  ELSE IF n < 10 THEN <<Digit[n + 1]>>
  ELSE to_string(n \div 10) \o <<Digit[(n % 10) + 1]>>

\* the generator state the helper emitters work on
Gen ==
  [aux |-> [text |-> auxiliaries, added |-> added_auxiliaries_],
   sparsities |-> added_sparsities_,
   constants |-> integer_constants_, added |-> added_integer_constants_,
   first_int |-> first_int, first_sp |-> first_sp,
   names |-> <<>>]

\* sparsity(sp) on a generator state: "s" + to_string(addSparsity(sp)), appended to names
Sparsity(g, sp) ==
  LET a == AddSparsity(sp, g.sparsities, g.constants, g.added)
  IN  [g EXCEPT !.sparsities = a.sparsities, !.constants = a.constants,
                !.added = a.added,
                !.first_int = Record(g.first_int, compress(sp), a.got),
                !.first_sp = IF sp \in DOMAIN g.first_sp THEN g.first_sp
                             ELSE g.first_sp @@ (sp :> a.ret),
                !.names = Append(g.names, <<"s">> \o to_string(a.ret))]

WithAux(g, f) == [g EXCEPT !.aux = AddAuxiliary(g.aux, f)]

\* the largest number of auxiliary routines a session is driven to
MaxAux == 3

\* a helper emitter's step: the generator state it leaves and the text it returns
Emit(op, arg, g, text) ==
  /\ status = "ready"
  /\ Cardinality(g.aux.added) <= MaxAux
  /\ Len(g.constants) <= MaxPool
  /\ auxiliaries' = g.aux.text
  /\ added_auxiliaries_' = g.aux.added
  /\ added_sparsities_' = g.sparsities
  /\ integer_constants_' = g.constants
  /\ added_integer_constants_' = g.added
  /\ first_int' = g.first_int
  /\ first_sp' = g.first_sp
  /\ asked' = asked \cup (g.aux.added \ added_auxiliaries_) \cup arg.tags
  /\ last' = [op |-> op, arg |-> arg, ret |-> text, err |-> NoError]
  /\ UNCHANGED <<status, optVars, inclVars, dblVars, textVars, first_double>>

addAuxiliary(f) ==
  /\ Emit("addAuxiliary", [tags |-> {f}], WithAux(Gen, f), <<>>)

copy(arg, n, res) ==
  Emit("copy", [tags |-> {"AUX_COPY"}], WithAux(Gen, "AUX_COPY"),
       <<"copy(", arg, ", ">> \o to_string(n) \o <<", ", res, ");">>)

fill(res, n, v) ==
  Emit("fill", [tags |-> {"AUX_FILL"}], WithAux(Gen, "AUX_FILL"),
       <<"fill(", res, ", ">> \o to_string(n) \o <<", ", v, ");">>)

dot(n, x, y) ==
  Emit("dot", [tags |-> {"AUX_DOT"}], WithAux(Gen, "AUX_DOT"),
       <<"dot(">> \o to_string(n) \o <<", ", x, ", ", y, ")">>)

to_mex(sp, arg) ==
  LET g == Sparsity(WithAux(Gen, "AUX_TO_MEX"), sp)
  IN  Emit("to_mex", [tags |-> {"AUX_TO_MEX"}, sp |-> sp], g,
           <<"to_mex(">> \o g.names[1] \o <<", ", arg, ");">>)

\* from_mex(arg, res, res_off, sp_res, w); a non-zero offset is folded into res
from_mex(arg, res, res_off, sp_res, w) ==
  LET g == Sparsity(WithAux(Gen, "AUX_FROM_MEX"), sp_res)
      r == IF res_off /= 0 THEN <<res, "+">> \o to_string(res_off) ELSE <<res>>
  IN  Emit("from_mex", [tags |-> {"AUX_FROM_MEX"}, sp |-> sp_res], g,
           <<"from_mex(", arg, ", ">> \o r \o <<", ">> \o g.names[1] \o <<", ", w, ");">>)

\* Sparsity::operator==: two patterns of one structure
SameStructure(a, b) == structure(a) = structure(b)

\* project(arg, sp_arg, res, sp_res, w); the two sparsity() calls are operands of one
\* chain of operator<<, which a compiler may evaluate in either order
project(arg, sp_arg, res, sp_res, w) ==
  IF SameStructure(sp_arg, sp_res)
  THEN Emit("project", [tags |-> {"AUX_COPY"}, sp |-> <<sp_arg, sp_res>>],
            WithAux(Gen, "AUX_COPY"),
            <<"copy(", arg, ", ">> \o to_string(Len(structure(sp_arg).row))
              \o <<", ", res, ");">>)
  ELSE \E arg_first \in BOOLEAN :
         LET g0 == WithAux(Gen, "AUX_PROJECT")
             g  == IF arg_first THEN Sparsity(Sparsity(g0, sp_arg), sp_res)
                   ELSE Sparsity(Sparsity(g0, sp_res), sp_arg)
             n_arg == IF arg_first THEN g.names[1] ELSE g.names[2]
             n_res == IF arg_first THEN g.names[2] ELSE g.names[1]
         IN  Emit("project", [tags |-> {"AUX_PROJECT"}, sp |-> <<sp_arg, sp_res>>], g,
                  <<"  project(", arg, ", ">> \o n_arg \o <<", ", res, ", ">>
                    \o n_res \o <<", ", w, ");">>)

(***************************************************************************)
(* The auxiliary catalogue under every sequence of requests.               *)
(***************************************************************************)
MexOption == [k \in {"mex"} |-> TRUE]

\* the tags requested directly, and the patterns the helper emitters are given
AuxRequests == {"AUX_FROM_MEX", "AUX_SQ"}
AuxPatterns == {"spA", "spC"}

InitAux == \E opts \in {NoOptions, MexOption} : CodeGenerator(opts)

NextAux ==
  \/ \E f \in AuxRequests : addAuxiliary(f)
  \/ copy("x", 1, "y")
  \/ fill("y", 1, "0")
  \/ dot(1, "x", "y")
  \/ \E sp \in AuxPatterns : to_mex(sp, "x")
  \/ \E sp \in AuxPatterns, res_off \in {0, 1} : from_mex("x", "y", res_off, sp, "w")
  \/ \E sp_arg \in AuxPatterns, sp_res \in AuxPatterns :
       project("x", sp_arg, "y", sp_res, "w")

SpecAux == InitAux /\ [][NextAux]_vars

(***************************************************************************)
(* Exposed functions and external declarations.                            *)
(***************************************************************************)
\* the largest number of functions a session exposes
MaxFuns == 2

\* f->generateFunction(*this, fname, false): the function's body text
generateFunction(fname) == << <<"/* body of ">> \o fname \o <<" */">> >>
\* f->generateMeta(*this, fname): the function's metadata text
generateMeta(fname) == << <<"/* meta of ">> \o fname \o <<" */">> >>
\* f->signature(fname)
signature(fname) ==
  <<"int ">> \o fname
    \o <<"(const real_t** arg, real_t** res, int* iw, real_t* w, void* mem)">>

\* CodeGenerator::add(f), f given by its name
add(fname) ==
  /\ status = "ready"
  /\ Len(exposed_fname) < MaxFuns
  /\ body' = body \o generateFunction(fname) \o generateMeta(fname)
  /\ header' = IF with_header
               THEN Append(header, (IF cpp THEN <<"extern \"C\" ">> ELSE <<>>)
                                     \o signature(fname) \o <<";">>)
               ELSE header
  /\ exposed_fname' = Append(exposed_fname, fname)
  /\ last' = [op |-> "add", arg |-> fname, ret |-> 0, err |-> NoError]
  /\ UNCHANGED <<status, optVars, inclVars, auxVars, intVars, dblVars,
                 added_sparsities_, histVars>>

addExternal(new_external) ==
  /\ status = "ready"
  /\ added_externals_' = added_externals_ \cup {new_external}
  /\ last' = [op |-> "addExternal", arg |-> new_external, ret |-> 0, err |-> NoError]
  /\ UNCHANGED <<status, optVars, includes, added_includes_, auxVars, intVars, dblVars,
                 added_sparsities_, textVars, histVars>>

addInclude(new_include, relative_path, use_ifdef) ==
  /\ status = "ready"
  /\ LET inc == AddInclude([added |-> added_includes_, text |-> includes],
                           new_include, relative_path, use_ifdef)
     IN  includes' = inc.text /\ added_includes_' = inc.added
  /\ last' = [op |-> "addInclude", arg |-> new_include, ret |-> 0, err |-> NoError]
  /\ UNCHANGED <<status, optVars, added_externals_, auxVars, intVars, dblVars,
                 added_sparsities_, textVars, histVars>>

(***************************************************************************)
(* Rendering.                                                              *)
(***************************************************************************)
\* the elements of a sequence of token sequences, separated by ", "
RECURSIVE Join(_)
Join(ts) ==
  IF ts = <<>> THEN <<>>
  ELSE IF Len(ts) = 1 THEN ts[1]
  ELSE ts[1] \o <<", ">> \o Join(Tail(ts))

(***************************************************************************)
(* Doubles and ints for the numeric-literal formatter.  An int has IntBits *)
(* bits; a double is NaN, an infinity, or a signed number of halves, which *)
(* keeps whole and fractional values, both zeros, and magnitudes on either *)
(* side of the int range.                                                  *)
(***************************************************************************)
\* the width of int
IntBits == 4
INT_MIN == -(2 ^ (IntBits - 1))
INT_MAX == (2 ^ (IntBits - 1)) - 1
Ints == INT_MIN..INT_MAX

NaN == [kind |-> "nan", neg |-> FALSE, halves |-> 0]
Inf(neg) == [kind |-> "inf", neg |-> neg, halves |-> 0]
Finite(neg, halves) == [kind |-> "finite", neg |-> neg, halves |-> halves]
\* the double of a natural number
Whole(n) == Finite(FALSE, 2 * n)

isnan(v) == v.kind = "nan"
isinf(v) == v.kind = "inf"
IsWhole(v) == v.kind = "finite" /\ v.halves % 2 = 0
\* the value of a double rounded toward zero
Truncated(v) == IF v.neg THEN -(v.halves \div 2) ELSE v.halves \div 2

\* int v_int(v): the truncated value when an int holds it; the conversion is
\* undefined otherwise, and any int may come out
v_int_of(v) == IF Truncated(v) \in Ints THEN {Truncated(v)} ELSE Ints

\* v_int==v, the int converted back to double; 0 equals both zeros
int_equals(v_int, v) == IsWhole(v) /\ Truncated(v) = v_int

\* setprecision(std::numeric_limits<double>::digits10 + 1)
precision == 16

Zeros(n) == [i \in 1..n |-> "0"]

\* s << std::scientific << std::setprecision(precision) << v, v finite, not 0
scientific(v) ==
  LET whole  == v.halves \div 2
      digits == IF whole > 0
                THEN to_string(whole) \o (IF v.halves % 2 = 1 THEN <<"5">> ELSE <<>>)
                ELSE <<"5">>
      exp    == IF whole > 0 THEN Len(to_string(whole)) - 1 ELSE -1
      mag    == IF exp < 0 THEN -exp ELSE exp
      all    == SubSeq(digits \o Zeros(precision + 1), 1, precision + 1)
  IN  (IF v.neg THEN <<"-">> ELSE <<>>)
        \o <<all[1], ".">> \o SubSeq(all, 2, precision + 1)
        \o <<"e", (IF exp < 0 THEN "-" ELSE "+")>>
        \o (IF mag < 10 THEN <<"0">> ELSE <<>>) \o to_string(mag)

constant_mut(v, v_int) ==
  IF isnan(v) THEN <<"N", "A", "N">>
  ELSE IF isinf(v)
  THEN (IF v.neg THEN <<"-">> ELSE <<>>) \o <<"I", "N", "F", "I", "N", "I", "T", "Y">>
  ELSE IF IsWhole(v) THEN to_string(Truncated(v)) \o <<".">>
  ELSE scientific(v)

\* constant(double v), given the int the conversion of v produced
constant_with(v, v_int) ==
  IF isnan(v) THEN <<"N", "A", "N">>
  ELSE IF isinf(v)
  THEN (IF v.neg THEN <<"-">> ELSE <<>>) \o <<"I", "N", "F", "I", "N", "I", "T", "Y">>
  ELSE IF int_equals(v_int, v) THEN to_string(v_int) \o <<".">>
  ELSE scientific(v)

\* the strings constant(v) can return
constant_outcomes(v) == {constant_with(v, v_int) : v_int \in v_int_of(v)}

\* constant(double v) for the double of a natural number that an int holds
constant(v) == CHOOSE s \in constant_outcomes(Whole(v)) : TRUE

print_vector_int(name, v) ==
  <<"static const int ">> \o name \o <<"[] = {">>
    \o Join([i \in 1..Len(v) |-> to_string(v[i])]) \o <<"};">>

print_vector_double(name, v) ==
  <<"static const real_t ">> \o name \o <<"[] = {">>
    \o Join([i \in 1..Len(v) |-> constant(v[i])]) \o <<"};">>

RECURSIVE Concat(_)
Concat(ss) == IF ss = <<>> THEN <<>> ELSE Head(ss) \o Concat(Tail(ss))

IntegerTables ==
  Concat([k \in 1..Len(integer_constants_) |->
    << print_vector_int(<<"CASADI_PREFIX(s">> \o to_string(k - 1) \o <<")">>,
                        integer_constants_[k]),
       <<"#define s">> \o to_string(k - 1) \o <<" CASADI_PREFIX(s">>
         \o to_string(k - 1) \o <<")">> >>])

DoubleTables ==
  Concat([k \in 1..Len(double_constants_) |->
    << print_vector_double(<<"CASADI_PREFIX(c">> \o to_string(k - 1) \o <<")">>,
                           double_constants_[k]),
       <<"#define c">> \o to_string(k - 1) \o <<" CASADI_PREFIX(c">>
         \o to_string(k - 1) \o <<")">> >>])

GenerateStreamMutBodyFirst ==
  auxiliaries \o body \o IntegerTables \o DoubleTables \o << <<>> >>

\* generate(std::ostream&): auxiliaries, integer tables, double tables, body
GenerateStream ==
  auxiliaries \o IntegerTables \o DoubleTables \o body \o << <<>> >>

file_open ==
  << <<"/* This function was automatically generated by CasADi */">> >>
  \o (IF ~cpp
      THEN << <<"#ifdef __cplusplus">>, <<"extern \"C\" {">>, <<"#endif">>, <<>> >>
      ELSE <<>>)

file_close ==
  IF ~cpp
  THEN << <<"#ifdef __cplusplus">>, <<"} /* extern \"C\" */">>, <<"#endif">> >>
  ELSE <<>>

define_real_t ==
  << <<"#ifndef real_t">>,
     <<"#define real_t ", real_t>>,
     <<"#define to_double(x) ", IF cpp THEN "static_cast<double>(x)" ELSE "(double) x">>,
     <<"#define to_int(x) ", IF cpp THEN "static_cast<int>(x)" ELSE "(int) x">>,
     <<"#endif /* real_t */">>, <<>> >>

Prefix(basename) ==
  << <<"#ifdef CODEGEN_PREFIX">>,
     <<"  #define NAMESPACE_CONCAT(NS, ID) _NAMESPACE_CONCAT(NS, ID)">>,
     <<"  #define _NAMESPACE_CONCAT(NS, ID) NS ## ID">>,
     <<"  #define CASADI_PREFIX(ID) NAMESPACE_CONCAT(CODEGEN_PREFIX, ID)">>,
     <<"#else /* CODEGEN_PREFIX */">>,
     <<"  #define CASADI_PREFIX(ID) ">> \o basename \o <<"_ ## ID">>,
     <<"#endif /* CODEGEN_PREFIX */">>, <<>> >>

\* the external declarations the model uses, and the order std::set keeps them in
ExternalDecls == {"extern int a();", "extern int b();"}
ExternalRank(e) == IF e = "extern int a();" THEN 1 ELSE 2

RECURSIVE Sorted(_)
Sorted(S) ==
  IF S = {} THEN <<>>
  ELSE LET m == CHOOSE x \in S : \A y \in S : ExternalRank(x) <= ExternalRank(y)
       IN  <<m>> \o Sorted(S \ {m})

Externals ==
  IF added_externals_ /= {}
  THEN << <<"/* External functions */">> >>
       \o [k \in 1..Cardinality(added_externals_) |-> <<Sorted(added_externals_)[k]>>]
       \o << <<>>, <<>> >>
  ELSE <<>>

Shims ==
  << <<"/* Pre-c99 compatibility */">>,
     <<"#if __STDC_VERSION__ < 199901L">>,
     <<"real_t CASADI_PREFIX(fmin)(real_t x, real_t y) { return x<y ? x : y;}">>,
     <<"#define fmin(x,y) CASADI_PREFIX(fmin)(x,y)">>,
     <<"real_t CASADI_PREFIX(fmax)(real_t x, real_t y) { return x>y ? x : y;}">>,
     <<"#define fmax(x,y) CASADI_PREFIX(fmax)(x,y)">>,
     <<"#endif">>, <<>> >>

\* the possible values both dispatchers list in their error message
PossibleValues ==
  Concat([i \in 1..Len(exposed_fname) |-> <<" '">> \o exposed_fname[i] \o <<"'">>])

MexSwitch(names) ==
  Concat([i \in 1..Len(names) |->
    << <<"  } else if (strcmp(buf, \"">> \o names[i] \o <<"\")==0) {">>,
       <<"    return mex_">> \o names[i] \o <<"(resc, resv, argc, argv);">> >>])

mex_gateway_mut_buf ==
  IF mex
  THEN << <<"#ifdef MATLAB_MEX_FILE">> >>
       \o (IF cpp THEN << <<"extern \"C\"">> >> ELSE <<>>)
       \o << <<"void mexFunction(int resc, mxArray *resv[], int argc, const mxArray *argv[]) {">>,
             <<"  char buf[">>
               \o to_string(Max({0} \cup {Len(exposed_fname[i]) : i \in 1..Len(exposed_fname)}))
               \o <<"];">>,
             <<"  int buf_ok = --argc >= 0 && !mxGetString(*argv++, buf, sizeof(buf));">>,
             <<"  if (!buf_ok) {">>,
             <<"    /* name error */">> >>
       \o MexSwitch(exposed_fname)
       \o << <<"  }">>,
             <<"  mexErrMsgTxt(\"First input should be a command string. Possible values:">>
               \o PossibleValues \o <<"\");">>,
             <<"}">>,
             <<"#endif">> >>
  ELSE <<>>

\* the array-host gateway generate(name) writes when mex is set
mex_gateway ==
  IF mex
  THEN << <<"#ifdef MATLAB_MEX_FILE">> >>
       \o (IF cpp THEN << <<"extern \"C\"">> >> ELSE <<>>)
       \o << <<"void mexFunction(int resc, mxArray *resv[], int argc, const mxArray *argv[]) {">>,
             <<"  char buf[">>
               \o to_string(Max({0} \cup {Len(exposed_fname[i]) : i \in 1..Len(exposed_fname)}) + 1)
               \o <<"];">>,
             <<"  int buf_ok = --argc >= 0 && !mxGetString(*argv++, buf, sizeof(buf));">>,
             <<"  if (!buf_ok) {">>,
             <<"    /* name error */">> >>
       \o MexSwitch(exposed_fname)
       \o << <<"  }">>,
             <<"  mexErrMsgTxt(\"First input should be a command string. Possible values:">>
               \o PossibleValues \o <<"\");">>,
             <<"}">>,
             <<"#endif">> >>
  ELSE <<>>

main_dispatcher_mut ==
  IF main
  THEN << <<"int main(int argc, char* argv[]) {">>,
          <<"  if (argc<2) {">>,
          <<"    /* name error */">> >>
       \o Concat([i \in 1..Len(exposed_fname) |->
            << <<"  } else if (strcmp(argv[1], \"">> \o exposed_fname[i] \o <<"\")==0) {">>,
               <<"    return main_">> \o exposed_fname[i] \o <<"(argc-2, argv+2);">> >>])
       \o << <<"  }">>,
             <<"  fprintf(stderr, \"First input should be a command string. Possible values:">>
               \o PossibleValues \o <<"\\n\");">>,
             <<"  return 0;">>,
             <<"}">> >>
  ELSE <<>>

\* the command-line dispatcher generate(name) writes when main is set
main_dispatcher ==
  IF main
  THEN << <<"int main(int argc, char* argv[]) {">>,
          <<"  if (argc<2) {">>,
          <<"    /* name error */">> >>
       \o Concat([i \in 1..Len(exposed_fname) |->
            << <<"  } else if (strcmp(argv[1], \"">> \o exposed_fname[i] \o <<"\")==0) {">>,
               <<"    return main_">> \o exposed_fname[i] \o <<"(argc-2, argv+2);">> >>])
       \o << <<"  }">>,
             <<"  fprintf(stderr, \"First input should be a command string. Possible values:">>
               \o PossibleValues \o <<"\\n\");">>,
             <<"  return 1;">>,
             <<"}">> >>
  ELSE <<>>

\* name.rfind('.'): the 1-based place of the last dot, 0 for npos
rfind_dot(name) ==
  LET at == {i \in 1..Len(name) : name[i] = "."}
  IN  IF at = {} THEN 0 ELSE Max(at)

BaseName(name) ==
  IF rfind_dot(name) = 0 THEN name ELSE SubSeq(name, 1, rfind_dot(name) - 1)

SuffixMut(name) ==
  IF cpp THEN <<".", "c", "p", "p">> ELSE <<".", "c">>

Suffix(name) ==
  IF rfind_dot(name) = 0
  THEN (IF cpp THEN <<".", "c", "p", "p">> ELSE <<".", "c">>)
  ELSE SubSeq(name, rfind_dot(name), Len(name))

Letters == {"a", "b", "c", "f", "g", "h", "p", "x"}
Digits == {Digit[i] : i \in 1..10}

\* Function::check_name: a non-empty identifier that starts with a letter
check_name(name) ==
  /\ name /= <<>>
  /\ name[1] \in Letters
  /\ \A i \in 1..Len(name) : name[i] \in Letters \cup Digits \cup {"_"}

\* the primary artifact generate(name) writes
PrimaryText(name) ==
  file_open \o Prefix(BaseName(name)) \o includes \o << <<>> >> \o define_real_t
    \o Externals \o Shims \o GenerateStream \o mex_gateway \o main_dispatcher
    \o file_close

\* the declaration artifact generate(name) writes when with_header is set
HeaderText == file_open \o define_real_t \o header \o file_close

\* the files generate(name) writes: file name -> text
GeneratedFiles(name) ==
  LET primary == BaseName(name) \o Suffix(name)
      hname   == BaseName(name) \o <<".", "h">>
  IN  [n \in {primary} \cup (IF with_header THEN {hname} ELSE {}) |->
         IF with_header /\ n = hname THEN HeaderText ELSE PrimaryText(name)]

generate_mut_unchecked(name) ==
  /\ status = "ready"
  /\ last' = [op |-> "generate", arg |-> name, ret |-> GeneratedFiles(name),
              err |-> IF check_name(BaseName(name)) THEN NoError
                      ELSE "Function::check_name(basename)"]
  /\ UNCHANGED <<status, session, histVars>>

generate_mut(name) ==
  /\ status = "ready"
  /\ check_name(BaseName(name))
  /\ last' = [op |-> "generate", arg |-> name, ret |-> GeneratedFiles(name),
              err |-> NoError]
  /\ body' = <<>>
  /\ UNCHANGED <<status, optVars, inclVars, auxVars, intVars, dblVars,
                 added_sparsities_, header, exposed_fname, histVars>>

\* generate(const std::string& name)
generate(name) ==
  /\ status = "ready"
  /\ last' = IF check_name(BaseName(name))
             THEN [op |-> "generate", arg |-> name, ret |-> GeneratedFiles(name),
                   err |-> NoError]
             ELSE [op |-> "generate", arg |-> name, ret |-> EmptyMap,
                   err |-> "Function::check_name(basename)"]
  /\ UNCHANGED <<status, session, histVars>>

\* std::string generate() const
generate_string ==
  /\ status = "ready"
  /\ last' = [op |-> "generate_string", arg |-> <<>>, ret |-> GenerateStream,
              err |-> NoError]
  /\ UNCHANGED <<status, session, histVars>>

(***************************************************************************)
(* compile: the commands handed to system() and the files written, in the  *)
(* order of the calls.  system() answers with any of SystemFlags.          *)
(***************************************************************************)
SystemFlags == {0, 1}
Compilers == {<<"c", "c">>}
\* the flag asking for a shared library, off __APPLE__
dlflag == <<" ", "-", "s", "h", "a", "r", "e", "d">>

System(cmd, flag) == [kind |-> "system", cmd |-> cmd, flag |-> flag]
Written(files) == [kind |-> "generate", files |-> files]

cname_mut(name) == name \o <<".", "c">>
cname(name) == name \o (IF cpp THEN <<".", "c", "p", "p">> ELSE <<".", "c">>)
dlname(name) == <<".", "/">> \o name \o <<".", "s", "o">>
rm_command(name) ==
  <<"r", "m", " ", "-", "r", "f", " ">> \o cname(name) \o <<" ">> \o dlname(name)
compile_command(name, compiler) ==
  compiler \o <<" ">> \o dlflag \o <<" ">> \o cname(name)
    \o <<" ", "-", "o", " ">> \o dlname(name)

compile_mut(name, compiler) ==
  /\ status = "ready"
  /\ \E rm_flag \in SystemFlags, cc_flag \in SystemFlags :
       LET rm == System(rm_command(name), rm_flag)
           cc == System(compile_command(name, compiler), cc_flag)
           a  == <<name, compiler>>
       IN  last' =
             IF ~check_name(BaseName(name))
             THEN [op |-> "compile", arg |-> a, ret |-> <<>>, calls |-> <<rm>>,
                   err |-> "Function::check_name(basename)"]
             ELSE IF cc_flag /= 0
             THEN [op |-> "compile", arg |-> a, ret |-> <<>>,
                   calls |-> <<rm, Written(GeneratedFiles(name)), cc>>,
                   err |-> "Compilation failed"]
             ELSE [op |-> "compile", arg |-> a, ret |-> dlname(name),
                   calls |-> <<rm, Written(GeneratedFiles(name)), cc>>,
                   err |-> NoError]
  /\ UNCHANGED <<status, session, histVars>>

\* std::string compile(const std::string& name, const std::string& compiler)
compile(name, compiler) ==
  /\ status = "ready"
  /\ \E rm_flag \in SystemFlags, cc_flag \in SystemFlags :
       LET rm == System(rm_command(name), rm_flag)
           cc == System(compile_command(name, compiler), cc_flag)
           a  == <<name, compiler>>
       IN  last' =
             IF rm_flag /= 0
             THEN [op |-> "compile", arg |-> a, ret |-> <<>>, calls |-> <<rm>>,
                   err |-> "Failed to remove old source"]
             ELSE IF ~check_name(BaseName(name))
             THEN [op |-> "compile", arg |-> a, ret |-> <<>>, calls |-> <<rm>>,
                   err |-> "Function::check_name(basename)"]
             ELSE IF cc_flag /= 0
             THEN [op |-> "compile", arg |-> a, ret |-> <<>>,
                   calls |-> <<rm, Written(GeneratedFiles(name)), cc>>,
                   err |-> "Compilation failed"]
             ELSE [op |-> "compile", arg |-> a, ret |-> dlname(name),
                   calls |-> <<rm, Written(GeneratedFiles(name)), cc>>,
                   err |-> NoError]
  /\ UNCHANGED <<status, session, histVars>>

(***************************************************************************)
(* The generated array-host gateway, run on a call's arguments.  An        *)
(* argument is a string, [str |-> characters], or something else.          *)
(***************************************************************************)
IsString(a) == DOMAIN a = {"str"}

\* the number a sequence of decimal digits writes
RECURSIVE from_digits(_)
from_digits(ds) ==
  IF ds = <<>> THEN 0
  ELSE (10 * from_digits(SubSeq(ds, 1, Len(ds) - 1)))
       + ((CHOOSE i \in 1..10 : Digit[i] = ds[Len(ds)]) - 1)

Find(text, line) == Min({i \in 1..Len(text) : text[i] = line})

\* mexFunction(resc, resv, argc, argv) as the text defines it
RunMexFunction(text, argv) ==
  LET top    == Find(text, <<"void mexFunction(int resc, mxArray *resv[], int argc, const mxArray *argv[]) {">>)
      sizeof == from_digits(SubSeq(text[top + 1], 2, Len(text[top + 1]) - 1))
      \* mxGetString fails on a non-string and on a string that does not fit buf
      buf_ok == /\ Len(argv) - 1 >= 0
                /\ IsString(argv[1])
                /\ Len(argv[1].str) + 1 <= sizeof
      close  == Min({i \in (top + 4)..Len(text) : text[i] = <<"  }">>})
      arms   == (close - (top + 5)) \div 2
      test(k)   == text[top + 3 + (2 * k)]
      callee(k) == text[top + 4 + (2 * k)]
      name(k)   == SubSeq(test(k), 2, Len(test(k)) - 1)
      taken  == {k \in 1..arms : name(k) = argv[1].str}
  IN  IF buf_ok /\ taken /= {}
      THEN [kind |-> "call",
            fn   |-> SubSeq(callee(Min(taken)), 1, Len(callee(Min(taken))) - 1),
            argc |-> Len(argv) - 1,
            argv |-> Tail(argv)]
      ELSE [kind |-> "error", msg |-> text[close + 1]]

(***************************************************************************)
(* The generated command-line dispatcher, run on a process's arguments.    *)
(* argv[0] of the process is the first element of argv here.               *)
(***************************************************************************)
\* the value a return statement of the dispatcher's last lines gives
ExitStatus(line) ==
  IF line = <<"  return 1;">> THEN 1
  ELSE IF line = <<"  return 0;">> THEN 0
  ELSE -1

\* main(argc, argv) as the text defines it
RunMain(text, argv) ==
  LET top    == Find(text, <<"int main(int argc, char* argv[]) {">>)
      close  == Min({i \in (top + 2)..Len(text) : text[i] = <<"  }">>})
      arms   == (close - (top + 3)) \div 2
      test(k)   == text[top + 1 + (2 * k)]
      callee(k) == text[top + 2 + (2 * k)]
      name(k)   == SubSeq(test(k), 2, Len(test(k)) - 1)
      taken  == IF text[top + 1] = <<"  if (argc<2) {">> /\ Len(argv) < 2
                THEN {}
                ELSE {k \in 1..arms : name(k) = argv[2]}
  IN  IF taken /= {}
      THEN [kind |-> "call",
            fn   |-> SubSeq(callee(Min(taken)), 1, Len(callee(Min(taken))) - 1),
            argc |-> Len(argv) - 2,
            argv |-> SubSeq(argv, 3, Len(argv))]
      ELSE [kind |-> "exit", msg |-> text[close + 1],
            status |-> ExitStatus(text[close + 2])]

(***************************************************************************)
(* Rendering under every sequence of requests.                             *)
(***************************************************************************)
RenderDicts ==
  {NoOptions, MexOption,
   [k \in {"mex", "cpp", "with_header"} |-> TRUE],
   [k \in {"main"} |-> TRUE]}

FunNames == {<<"f">>, <<"g", "g">>}
RenderNames == {<<"f">>, <<"g", ".", "c", "x", "x">>, <<"1", "f">>}

InitRender == \E opts \in RenderDicts : CodeGenerator(opts)

NextRender ==
  \/ \E fname \in FunNames : add(fname)
  \/ \E e \in ExternalDecls : addExternal(e)
  \/ getConstant_int(<<1>>, TRUE)
  \/ getConstant_double(<<0, 1>>, TRUE)
  \/ addAuxiliary("AUX_SQ")
  \/ \E name \in RenderNames : generate(name)
  \/ generate_string
  \/ \E name \in RenderNames, compiler \in Compilers : compile(name, compiler)

SpecRender == InitRender /\ [][NextRender]_vars

(***************************************************************************)
(* The formatters of literals and of work-vector references.               *)
(***************************************************************************)
\* the largest index of a work vector
MaxWork == 11

\* the doubles the formatter is asked for
Doubles ==
  {NaN, Inf(FALSE), Inf(TRUE)}
    \cup {Finite(neg, h) : neg \in BOOLEAN, h \in 0..(2 ^ (IntBits + 1))}

\* std::string constant(double v)
constant_double(v) ==
  /\ status = "ready"
  /\ \E s \in constant_outcomes(v) :
       last' = [op |-> "constant", arg |-> v, ret |-> s, err |-> NoError]
  /\ UNCHANGED <<status, session, histVars>>

WorkMut(n, sz) ==
  IF n < 0 \/ sz = 0 THEN <<"0">>
  ELSE <<"w">> \o to_string(n)

Work(n, sz) ==
  IF n < 0 \/ sz = 0 THEN <<"0">>
  ELSE IF sz = 1 /\ ~codegen_scalars THEN <<"(", "&", "w">> \o to_string(n) \o <<")">>
  ELSE <<"w">> \o to_string(n)

WorkelMut(n) ==
  IF n < 0 THEN <<"0">>
  ELSE (IF codegen_scalars THEN <<>> ELSE <<"*">>) \o <<"w">> \o to_string(n)

Workel(n) ==
  IF n < 0 THEN <<"0">>
  ELSE (IF codegen_scalars THEN <<"*">> ELSE <<>>) \o <<"w">> \o to_string(n)

\* std::string work(int n, int sz) const
work(n, sz) ==
  /\ status = "ready"
  /\ last' = [op |-> "work", arg |-> <<n, sz>>, ret |-> Work(n, sz), err |-> NoError]
  /\ UNCHANGED <<status, session, histVars>>

\* std::string workel(int n) const
workel(n) ==
  /\ status = "ready"
  /\ last' = [op |-> "workel", arg |-> n, ret |-> Workel(n), err |-> NoError]
  /\ UNCHANGED <<status, session, histVars>>

FormatDicts == {NoOptions, [k \in {"codegen_scalars"} |-> TRUE]}

InitFormat == \E opts \in FormatDicts : CodeGenerator(opts)

NextFormat ==
  \/ \E v \in Doubles : constant_double(v)
  \/ \E n \in (-1)..MaxWork, sz \in 0..2 : work(n, sz)
  \/ \E n \in (-1)..MaxWork : workel(n)

SpecFormat == InitFormat /\ [][NextFormat]_vars

(***************************************************************************)
(* Construction under every option dictionary.                             *)
(***************************************************************************)
FlagKeys == OptionKeys \ {"real_t"}

\* every dictionary over the recognized keys and one unrecognized key
Dicts ==
  {flags @@ alias :
     flags \in {d \in UNION {[K -> BOOLEAN] : K \in SUBSET (FlagKeys \cup {"bogus"})} :
                  "bogus" \in DOMAIN d => d["bogus"]},
     alias \in UNION {[K -> {"double", "float"}] : K \in SUBSET {"real_t"}}}

InitCtor == \E opts \in Dicts : CodeGenerator(opts)

NextCtor ==
  \/ \E new_include \in {"math.h", "stdio.h"} : addInclude(new_include, FALSE, "")
  \/ addInclude("casadi.h", TRUE, "CASADI")

SpecCtor == InitCtor /\ [][NextCtor]_vars

(***************************************************************************)
(* The table of atomic operations.  An operand is a real number kept to a  *)
(* fixed number of decimal places: the integer v stands for v / Scale.     *)
(* The functions of the C library are computed by their series.            *)
(***************************************************************************)
\* the number of units in 1
Scale == 10000

One == Scale
\* n / d rounded to the nearest integer, d > 0
RDiv(n, d) == (n + (d \div 2)) \div d
Times(a, b) == RDiv(a * b, Scale)
Over(a, b) == IF b > 0 THEN RDiv(a * Scale, b) ELSE RDiv(-(a * Scale), -b)
\* a number of tenths
Tenths(n) == (n * Scale) \div 10
pi == (31416 * Scale) \div 10000

RECURSIVE ExpSum(_, _, _)
ExpSum(x, t, k) ==
  IF t = 0 THEN 0 ELSE t + ExpSum(x, RDiv(t * x, k * Scale), k + 1)
exp(x) == ExpSum(x, One, 1)

RECURSIVE SinSum(_, _, _)
SinSum(x, t, k) ==
  IF t = 0 THEN 0
  ELSE t + SinSum(x, -RDiv(Times(t, x) * x, ((2 * k) * ((2 * k) + 1)) * Scale), k + 1)
sin(x) == SinSum(x, x, 1)

RECURSIVE CosSum(_, _, _)
CosSum(x, t, k) ==
  IF t = 0 THEN 0
  ELSE t + CosSum(x, -RDiv(Times(t, x) * x, (((2 * k) - 1) * (2 * k)) * Scale), k + 1)
cos(x) == CosSum(x, One, 1)

tan(x) == Over(sin(x), cos(x))

RECURSIVE SqrtIter(_, _)
SqrtIter(n, r) ==
  LET next == (r + (n \div r)) \div 2
  IN  IF next >= r THEN r ELSE SqrtIter(n, next)
sqrt(x) == IF x = 0 THEN 0 ELSE SqrtIter(x * Scale, x * Scale)

\* atanh and atan by their power series, for arguments well inside (-1, 1);
\* a term of a single unit adds nothing once it is divided
RECURSIVE AtanhSum(_, _, _)
AtanhSum(z2, t, k) ==
  IF t \in {-1, 0, 1} THEN 0
  ELSE RDiv(t, (2 * k) + 1) + AtanhSum(z2, Times(t, z2), k + 1)
atanh(x) == AtanhSum(Times(x, x), x, 0)

RECURSIVE AtanSum(_, _, _)
AtanSum(z2, t, k) ==
  IF t \in {-1, 0, 1} THEN 0
  ELSE RDiv(t, (2 * k) + 1) + AtanSum(z2, -Times(t, z2), k + 1)
atan(x) == AtanSum(Times(x, x), x, 0)

log(x) == 2 * atanh(Over(x - One, x + One))
pow(x, y) == exp(Times(y, log(x)))
sq(x) == Times(x, x)
twice(x) == 2 * x
asin(x) == atan(Over(x, sqrt(One - sq(x))))
acos(x) == (pi \div 2) - asin(x)
\* atan2 for a positive second argument
atan2(x, y) == atan(Over(x, y))

sinh(x) == (exp(x) - exp(-x)) \div 2
cosh(x) == (exp(x) + exp(-x)) \div 2
tanh(x) == Over(exp(x) - exp(-x), exp(x) + exp(-x))
asinh(x) == log(x + sqrt(sq(x) + One))
acosh(x) == log(x + sqrt(sq(x) - One))

RECURSIVE ErfSum(_, _, _)
ErfSum(x2, t, n) ==
  IF t = 0 THEN 0
  ELSE RDiv(t, (2 * n) + 1) + ErfSum(x2, -RDiv(t * x2, (n + 1) * Scale), n + 1)
erf(x) == Over(2 * ErfSum(sq(x), x, 0), sqrt(pi))

\* erfinv by Newton's iteration on erf
RECURSIVE ErfinvIter(_, _, _)
ErfinvIter(y, x, k) ==
  IF k = 0 THEN x
  ELSE ErfinvIter(y, x - Times(Times(erf(x) - y, sqrt(pi) \div 2), exp(sq(x))), k - 1)
erfinv(y) == ErfinvIter(y, y, 6)

Truth(b) == IF b THEN One ELSE 0
floor(x) == (x \div Scale) * Scale
ceil(x) == -floor(-x)
fabs(x) == IF x < 0 THEN -x ELSE x
sign(x) == IF x < 0 THEN -One ELSE IF x > 0 THEN One ELSE 0
\* x / y rounded toward zero, as a whole number
Trunc(x, y) == IF (x < 0) = (y < 0) THEN fabs(x) \div fabs(y) ELSE -(fabs(x) \div fabs(y))
fmod(x, y) == x - (Trunc(x, y) * y)
copysign(x, y) == IF y < 0 THEN -fabs(x) ELSE fabs(x)
fmin(x, y) == IF x < y THEN x ELSE y
fmax(x, y) == IF x > y THEN x ELSE y
if_else_zero(x, y) == IF x /= 0 THEN y ELSE 0
printme(x, y) == x

Unary ==
  {"assign", "neg", "exp", "log", "sqrt", "sq", "twice", "sin", "cos", "tan",
   "asin", "acos", "atan", "floor", "ceil", "not", "erf", "fabs", "sign", "inv",
   "sinh", "cosh", "tanh", "asinh", "acosh", "atanh", "erfinv"}
Binary ==
  {"add", "sub", "mul", "div", "pow", "constpow", "lt", "le", "fmod", "eq", "ne",
   "and", "or", "copysign", "fmin", "fmax", "printme", "atan2", "if_else_zero", "lift"}
Operations == Unary \cup Binary

\* fcn of each operation; y is not read by a unary operation
fcn(op, x, y) ==
  CASE op = "assign" -> x
    [] op = "add" -> x + y
    [] op = "sub" -> x - y
    [] op = "mul" -> Times(x, y)
    [] op = "div" -> Over(x, y)
    [] op = "neg" -> -x
    [] op = "exp" -> exp(x)
    [] op = "log" -> log(x)
    [] op = "pow" -> pow(x, y)
    [] op = "constpow" -> pow(x, y)
    [] op = "sqrt" -> sqrt(x)
    [] op = "sq" -> sq(x)
    [] op = "twice" -> 2 * x
    [] op = "sin" -> sin(x)
    [] op = "cos" -> cos(x)
    [] op = "tan" -> tan(x)
    [] op = "asin" -> asin(x)
    [] op = "acos" -> acos(x)
    [] op = "atan" -> atan(x)
    [] op = "lt" -> Truth(x < y)
    [] op = "le" -> Truth(x <= y)
    [] op = "floor" -> floor(x)
    [] op = "ceil" -> ceil(x)
    [] op = "fmod" -> fmod(x, y)
    [] op = "eq" -> Truth(x = y)
    [] op = "ne" -> Truth(x /= y)
    [] op = "not" -> Truth(x = 0)
    [] op = "and" -> Truth(x /= 0 /\ y /= 0)
    [] op = "or" -> Truth(x /= 0 \/ y /= 0)
    [] op = "erf" -> erf(x)
    [] op = "fabs" -> fabs(x)
    [] op = "sign" -> sign(x)
    [] op = "copysign" -> copysign(x, y)
    [] op = "fmin" -> fmin(x, y)
    [] op = "fmax" -> fmax(x, y)
    [] op = "inv" -> Over(One, x)
    [] op = "sinh" -> sinh(x)
    [] op = "cosh" -> cosh(x)
    [] op = "tanh" -> tanh(x)
    [] op = "asinh" -> asinh(x)
    [] op = "acosh" -> acosh(x)
    [] op = "atanh" -> atanh(x)
    [] op = "erfinv" -> erfinv(x)
    [] op = "printme" -> printme(x, y)
    [] op = "atan2" -> atan2(x, y)
    [] op = "if_else_zero" -> if_else_zero(x, y)
    [] op = "lift" -> x

\* the derivative rules of sign, copysign, fmin, fmax and cosh
der_sign_mut(x, f) == <<sign(x)>>

der_sign(x, f) == <<0>>

der_copysign(x, y, f) == <<copysign(One, y), 0>>

der_fmin_mut(x, y, f) == <<Truth(x < y), Truth(~(x < y))>>

der_fmin(x, y, f) == <<Truth(x <= y), Truth(~(x <= y))>>

der_fmax(x, y, f) == <<Truth(x >= y), Truth(~(x >= y))>>

der_cosh_mut(x, f) == <<sinh(x)>>

der_cosh(x, f) == <<-sinh(x)>>

\* der of each operation: d[0], and d[1] for a binary operation
der(op, x, y, f) ==
  CASE op = "assign" -> <<One>>
    [] op = "add" -> <<One, One>>
    [] op = "sub" -> <<One, -One>>
    [] op = "mul" -> <<y, x>>
    [] op = "div" -> <<Over(One, y), Over(-f, y)>>
    [] op = "neg" -> <<-One>>
    [] op = "exp" -> <<f>>
    [] op = "log" -> <<Over(One, x)>>
    [] op = "pow" -> <<Times(y, pow(x, y - One)), Times(log(x), f)>>
    [] op = "constpow" -> <<Times(y, pow(x, y - One)), 0>>
    [] op = "sqrt" -> <<Over(One, twice(f))>>
    [] op = "sq" -> <<twice(x)>>
    [] op = "twice" -> <<2 * One>>
    [] op = "sin" -> <<cos(x)>>
    [] op = "cos" -> <<-sin(x)>>
    [] op = "tan" -> <<Over(One, sq(cos(x)))>>
    [] op = "asin" -> <<Over(One, sqrt(One - Times(x, x)))>>
    [] op = "acos" -> <<Over(-One, sqrt(One - Times(x, x)))>>
    [] op = "atan" -> <<Over(One, One + Times(x, x))>>
    [] op = "lt" -> <<0, 0>>
    [] op = "le" -> <<0, 0>>
    [] op = "floor" -> <<0>>
    [] op = "ceil" -> <<0>>
    [] op = "fmod" -> <<One, Over(f - x, y)>>
    [] op = "eq" -> <<0, 0>>
    [] op = "ne" -> <<0, 0>>
    [] op = "not" -> <<0>>
    [] op = "and" -> <<0, 0>>
    [] op = "or" -> <<0, 0>>
    [] op = "erf" -> <<Times(Over(2 * One, sqrt(pi)), exp(-Times(x, x)))>>
    [] op = "fabs" -> <<sign(x)>>
    [] op = "sign" -> der_sign(x, f)
    [] op = "copysign" -> der_copysign(x, y, f)
    [] op = "fmin" -> der_fmin(x, y, f)
    [] op = "fmax" -> der_fmax(x, y, f)
    [] op = "inv" -> <<-Times(f, f)>>
    [] op = "sinh" -> <<cosh(x)>>
    [] op = "cosh" -> der_cosh(x, f)
    [] op = "tanh" -> <<One - Times(f, f)>>
    [] op = "asinh" -> <<Over(One, sqrt(One + Times(x, x)))>>
    [] op = "acosh" -> <<Over(Over(One, sqrt(x - One)), sqrt(x + One))>>
    [] op = "atanh" -> <<Over(One, One - Times(x, x))>>
    [] op = "erfinv" -> <<Times(sqrt(pi) \div 2, exp(Times(f, f)))>>
    [] op = "printme" -> <<One, 0>>
    [] op = "atan2" -> <<Over(y, Times(x, x) + Times(y, y)), Over(-x, Times(x, x) + Times(y, y))>>
    [] op = "if_else_zero" -> <<0, if_else_zero(x, One)>>
    [] op = "lift" -> <<One, 0>>

\* where the series above compute fcn and der of an operation
Within(x, lo, hi) == Tenths(lo) <= x /\ x <= Tenths(hi)
InDomain(op, x, y) ==
  CASE op \in {"log"} -> Within(x, 2, 40)
    [] op \in {"sqrt"} -> x > 0
    [] op \in {"pow", "constpow"} -> Within(x, 5, 21) /\ Within(y, -16, 21)
    [] op \in {"tan", "asin", "acos", "atan", "atanh", "erfinv"} -> Within(x, -7, 7)
    [] op \in {"acosh"} -> Within(x, 14, 21)
    [] op \in {"asinh", "exp", "sinh", "cosh", "tanh"} -> Within(x, -21, 21)
    [] op \in {"erf"} -> Within(x, -16, 16)
    [] op \in {"div", "fmod"} -> y /= 0
    [] op \in {"inv"} -> x /= 0
    [] op \in {"atan2"} -> y > 0 /\ 10 * fabs(x) <= 7 * y
    [] OTHER -> TRUE

\* the operand values the table is evaluated at
Operands == {Tenths(n) : n \in {-15, -5, 0, 3, 6, 15, 20}}

\* no generator is constructed: every member holds its default
NoGenerator ==
  /\ FreshMembers
  /\ status = "absent"
  /\ verbose = FALSE /\ mex = FALSE /\ cpp = FALSE /\ main = FALSE
  /\ real_t = "double" /\ codegen_scalars = FALSE /\ with_header = FALSE
  /\ includes = <<>> /\ added_includes_ = {}
  /\ auxiliaries = <<>>

\* an operation and its operands, waiting to be evaluated
Pending(what, arg) == [op |-> what, arg |-> arg, ret |-> 0, err |-> NoError]

\* one operation evaluated at its operands: fcn, then der
atomic ==
  /\ last.op = "operands"
  /\ LET op == last.arg[1]
         x  == last.arg[2]
         y  == last.arg[3]
         f  == fcn(op, x, y)
     IN  last' = [op |-> "atomic", arg |-> last.arg,
                  ret |-> [f |-> f, d |-> der(op, x, y, f)], err |-> NoError]
  /\ UNCHANGED <<status, session, histVars>>

InitAtomic ==
  /\ NoGenerator
  /\ \/ \E op \in Unary, x \in Operands :
          InDomain(op, x, 0) /\ last = Pending("operands", <<op, x, 0>>)
     \/ \E op \in Binary, x \in Operands, y \in Operands :
          InDomain(op, x, y) /\ last = Pending("operands", <<op, x, y>>)

NextAtomic == atomic

SpecAtomic == InitAtomic /\ [][NextAtomic]_vars

(***************************************************************************)
(* Expression nodes.  A heap is a sequence of nodes and a node's identity  *)
(* is its place in the heap; dep holds the identities of its operands and  *)
(* val the value of a constant or the name of a symbol.                    *)
(***************************************************************************)
Node(op, dep, val) == [op |-> op, dep |-> dep, val |-> val]
Constant(v) == Node("const", <<>>, v)
Symbol(s) == Node("sym", <<>>, s)

is_constant(heap, n) == heap[n].op = "const"
is_zero(heap, n) == is_constant(heap, n) /\ heap[n].val = 0
is_op(heap, n, op) == heap[n].op = op
\* dep(i), the operands counted from 0
dep(heap, n, i) == heap[n].dep[i + 1]

\* allocation of a node: the heap with the node, and the node's identity
New(heap, node) == [heap |-> Append(heap, node), ret |-> Len(heap) + 1]
Old(heap, n) == [heap |-> heap, ret |-> n]

is_equal_mut(heap, x, y, depth) == heap[x] = heap[y]

\* is_equal(x, y, depth): the same node, or with depth left the same
\* operation on operands equal at one depth less
RECURSIVE is_equal(_, _, _, _)
is_equal(heap, x, y, depth) ==
  \/ x = y
  \/ /\ depth > 0
     /\ heap[x].op = heap[y].op
     /\ heap[x].val = heap[y].val
     /\ Len(heap[x].dep) = Len(heap[y].dep)
     /\ \A i \in 1..Len(heap[x].dep) :
          is_equal(heap, heap[x].dep[i], heap[y].dep[i], depth - 1)

\* x - y and -y as the rules of addition build them
Minus(heap, x, y) == New(heap, Node("sub", <<x, y>>, 0))
Negated(heap, y) == New(heap, Node("neg", <<y>>, 0))

half == Scale \div 2
two == 2 * Scale

PlusNode_eval_mut(heap, x, y, eq_depth_) ==
  IF is_zero(heap, y) THEN Old(heap, x)
  ELSE IF is_zero(heap, x) THEN Old(heap, y)
  ELSE New(heap, Node("add", <<x, y>>, 0))

PlusNode_eval_mut_order(heap, x, y, eq_depth_) ==
  IF is_zero(heap, x) THEN Old(heap, y)
  ELSE IF is_zero(heap, y) THEN Old(heap, x)
  ELSE IF is_op(heap, y, "neg")
  THEN LET m == Negated(heap, y) IN Minus(m.heap, x, m.ret)
  ELSE IF is_op(heap, x, "neg") THEN Minus(heap, y, dep(heap, x, 0))
  ELSE IF /\ is_op(heap, x, "mul") /\ is_op(heap, y, "mul")
          /\ is_constant(heap, dep(heap, x, 0)) /\ heap[dep(heap, x, 0)].val = half
          /\ is_constant(heap, dep(heap, y, 0)) /\ heap[dep(heap, y, 0)].val = half
          /\ is_equal(heap, dep(heap, y, 1), dep(heap, x, 1), eq_depth_)
  THEN Old(heap, dep(heap, x, 1))
  ELSE IF /\ is_op(heap, x, "div") /\ is_op(heap, y, "div")
          /\ is_constant(heap, dep(heap, x, 1)) /\ heap[dep(heap, x, 1)].val = two
          /\ is_constant(heap, dep(heap, y, 1)) /\ heap[dep(heap, y, 1)].val = two
          /\ is_equal(heap, dep(heap, y, 0), dep(heap, x, 0), eq_depth_)
  THEN Old(heap, dep(heap, x, 0))
  ELSE IF is_op(heap, x, "sub") /\ is_equal(heap, dep(heap, x, 1), y, eq_depth_)
  THEN Old(heap, dep(heap, x, 0))
  ELSE IF is_op(heap, y, "sub") /\ is_equal(heap, x, dep(heap, y, 1), eq_depth_)
  THEN Old(heap, dep(heap, y, 0))
  ELSE IF /\ is_op(heap, x, "sq") /\ is_op(heap, y, "sq")
          /\ is_op(heap, dep(heap, x, 0), "sin")
          /\ is_op(heap, dep(heap, y, 0), "cos")
          /\ is_equal(heap, dep(heap, dep(heap, x, 0), 0),
                      dep(heap, dep(heap, y, 0), 0), eq_depth_)
  THEN New(heap, Constant(One))
  ELSE New(heap, Node("add", <<x, y>>, 0))

PlusNode_eval_mut_swap(heap, x, y, eq_depth_) ==
  IF is_zero(heap, x) THEN Old(heap, y)
  ELSE IF is_zero(heap, y) THEN Old(heap, x)
  ELSE IF is_op(heap, y, "neg")
  THEN LET m == Negated(heap, y) IN Minus(m.heap, x, m.ret)
  ELSE IF is_op(heap, x, "neg") THEN Minus(heap, dep(heap, x, 0), y)
  ELSE IF /\ is_op(heap, x, "mul") /\ is_op(heap, y, "mul")
          /\ is_constant(heap, dep(heap, x, 0)) /\ heap[dep(heap, x, 0)].val = half
          /\ is_constant(heap, dep(heap, y, 0)) /\ heap[dep(heap, y, 0)].val = half
          /\ is_equal(heap, dep(heap, y, 1), dep(heap, x, 1), eq_depth_)
  THEN Old(heap, dep(heap, x, 1))
  ELSE IF /\ is_op(heap, x, "div") /\ is_op(heap, y, "div")
          /\ is_constant(heap, dep(heap, x, 1)) /\ heap[dep(heap, x, 1)].val = two
          /\ is_constant(heap, dep(heap, y, 1)) /\ heap[dep(heap, y, 1)].val = two
          /\ is_equal(heap, dep(heap, y, 0), dep(heap, x, 0), eq_depth_)
  THEN Old(heap, dep(heap, x, 0))
  ELSE IF is_op(heap, x, "sub") /\ is_equal(heap, dep(heap, x, 1), y, eq_depth_)
  THEN Old(heap, dep(heap, x, 0))
  ELSE IF is_op(heap, y, "sub") /\ is_equal(heap, x, dep(heap, y, 1), eq_depth_)
  THEN Old(heap, dep(heap, y, 0))
  ELSE IF /\ is_op(heap, x, "sq") /\ is_op(heap, y, "sq")
          /\ \/ /\ is_op(heap, dep(heap, x, 0), "sin")
                /\ is_op(heap, dep(heap, y, 0), "cos")
             \/ /\ is_op(heap, dep(heap, x, 0), "cos")
                /\ is_op(heap, dep(heap, y, 0), "sin")
          /\ is_equal(heap, dep(heap, dep(heap, x, 0), 0),
                      dep(heap, dep(heap, y, 0), 0), eq_depth_)
  THEN New(heap, Constant(One))
  ELSE New(heap, Node("add", <<x, y>>, 0))

\* PlusNode::eval on the operands x and y
PlusNode_eval(heap, x, y, eq_depth_) ==
  IF is_zero(heap, x) THEN Old(heap, y)
  ELSE IF is_zero(heap, y) THEN Old(heap, x)
  ELSE IF is_op(heap, y, "neg")
  THEN LET m == Negated(heap, y) IN Minus(m.heap, x, m.ret)
  ELSE IF is_op(heap, x, "neg") THEN Minus(heap, y, dep(heap, x, 0))
  ELSE IF /\ is_op(heap, x, "mul") /\ is_op(heap, y, "mul")
          /\ is_constant(heap, dep(heap, x, 0)) /\ heap[dep(heap, x, 0)].val = half
          /\ is_constant(heap, dep(heap, y, 0)) /\ heap[dep(heap, y, 0)].val = half
          /\ is_equal(heap, dep(heap, y, 1), dep(heap, x, 1), eq_depth_)
  THEN Old(heap, dep(heap, x, 1))
  ELSE IF /\ is_op(heap, x, "div") /\ is_op(heap, y, "div")
          /\ is_constant(heap, dep(heap, x, 1)) /\ heap[dep(heap, x, 1)].val = two
          /\ is_constant(heap, dep(heap, y, 1)) /\ heap[dep(heap, y, 1)].val = two
          /\ is_equal(heap, dep(heap, y, 0), dep(heap, x, 0), eq_depth_)
  THEN Old(heap, dep(heap, x, 0))
  ELSE IF is_op(heap, x, "sub") /\ is_equal(heap, dep(heap, x, 1), y, eq_depth_)
  THEN Old(heap, dep(heap, x, 0))
  ELSE IF is_op(heap, y, "sub") /\ is_equal(heap, x, dep(heap, y, 1), eq_depth_)
  THEN Old(heap, dep(heap, y, 0))
  ELSE IF /\ is_op(heap, x, "sq") /\ is_op(heap, y, "sq")
          /\ \/ /\ is_op(heap, dep(heap, x, 0), "sin")
                /\ is_op(heap, dep(heap, y, 0), "cos")
             \/ /\ is_op(heap, dep(heap, x, 0), "cos")
                /\ is_op(heap, dep(heap, y, 0), "sin")
          /\ is_equal(heap, dep(heap, dep(heap, x, 0), 0),
                      dep(heap, dep(heap, y, 0), 0), eq_depth_)
  THEN New(heap, Constant(One))
  ELSE New(heap, Node("add", <<x, y>>, 0))

\* the nodes the rules are tried on: two symbols, two zero constants that
\* are different nodes, and operands for each rule, some built twice
Graph ==
  << Symbol(1), Symbol(2), Constant(0), Constant(0), Constant(half), Constant(two),
     Node("neg", <<1>>, 0),
     Node("mul", <<5, 1>>, 0), Node("mul", <<5, 1>>, 0), Node("mul", <<5, 2>>, 0),
     Node("div", <<1, 6>>, 0), Node("div", <<2, 6>>, 0),
     Node("sub", <<2, 1>>, 0),
     Node("sin", <<1>>, 0), Node("cos", <<1>>, 0), Node("cos", <<2>>, 0),
     Node("sq", <<14>>, 0), Node("sq", <<15>>, 0), Node("sq", <<16>>, 0),
     Node("sin", <<7>>, 0), Node("cos", <<7>>, 0),
     Node("sq", <<20>>, 0), Node("sq", <<21>>, 0),
     Node("neg", <<1>>, 0), Node("cos", <<24>>, 0), Node("sq", <<25>>, 0),
     Node("mul", <<1, 1>>, 0), Node("mul", <<1, 1>>, 0) >>

\* SXNode::eq_depth_, the depth the rules compare to
Depths == {0, 1}

\* the addition of two nodes of the graph
plus ==
  /\ last.op = "addends"
  /\ LET r == PlusNode_eval(Graph, last.arg[1], last.arg[2], last.arg[3])
     IN  last' = [op |-> "plus", arg |-> last.arg, ret |-> r, err |-> NoError]
  /\ UNCHANGED <<status, session, histVars>>

\* the depths two nodes are compared to
MaxDepth == 2

\* the comparison of two nodes of the graph
compare ==
  /\ last.op = "comparands"
  /\ last' = [op |-> "is_equal", arg |-> last.arg,
              ret |-> is_equal(Graph, last.arg[1], last.arg[2], last.arg[3]),
              err |-> NoError]
  /\ UNCHANGED <<status, session, histVars>>

InitPlus ==
  /\ NoGenerator
  /\ \E x \in 1..Len(Graph), y \in 1..Len(Graph) :
       \/ \E depth \in Depths : last = Pending("addends", <<x, y, depth>>)
       \/ \E depth \in 0..MaxDepth : last = Pending("comparands", <<x, y, depth>>)

NextPlus == plus \/ compare

SpecPlus == InitPlus /\ [][NextPlus]_vars

(***************************************************************************)
(* Traversals of a graph.  The nodes of a heap are in the order they were  *)
(* built, operands before the nodes that use them; the last node is the    *)
(* output.  env gives each symbol its value.                               *)
(***************************************************************************)
Operand(n, v, i) == IF Len(n.dep) >= i THEN v[n.dep[i]] ELSE 0

\* the value of a node from the values v of the nodes before it
NodeValue(n, v, env) ==
  IF n.op = "const" THEN n.val
  ELSE IF n.op = "sym" THEN env[n.val]
  ELSE fcn(n.op, Operand(n, v, 1), Operand(n, v, 2))

\* the values of the first k nodes
RECURSIVE Values(_, _, _)
Values(heap, env, k) ==
  IF k = 0 THEN << >>
  ELSE LET v == Values(heap, env, k - 1)
       IN  Append(v, NodeValue(heap[k], v, env))

\* eval: the value of every node
eval(heap, env) == Values(heap, env, Len(heap))

\* the partial derivatives of node k with respect to its operands
Partials(heap, v, k) ==
  der(heap[k].op, Operand(heap[k], v, 1), Operand(heap[k], v, 2), v[k])

\* the sensitivity of a node from the sensitivities t of the nodes before it
NodeTangent(heap, v, t, fseed, k) ==
  LET n == heap[k]
      d == Partials(heap, v, k)
  IN  IF n.op = "const" THEN 0
      ELSE IF n.op = "sym" THEN fseed[n.val]
      ELSE IF Len(n.dep) = 1 THEN Times(d[1], t[n.dep[1]])
      ELSE Times(d[1], t[n.dep[1]]) + Times(d[2], t[n.dep[2]])

RECURSIVE Tangents(_, _, _, _)
Tangents(heap, v, fseed, k) ==
  IF k = 0 THEN << >>
  ELSE LET t == Tangents(heap, v, fseed, k - 1)
       IN  Append(t, NodeTangent(heap, v, t, fseed, k))

\* ad_forward: the sensitivity of the output to the direction fseed
ad_forward(heap, env, fseed) ==
  Tangents(heap, eval(heap, env), fseed, Len(heap))[Len(heap)]

AccumulateMut(adj, to, c) == [adj EXCEPT ![to] = c]

\* a contribution c to the adjoint of the node to
Accumulate(adj, to, c) == [adj EXCEPT ![to] = @ + c]

\* node k distributes its adjoint to its operands
Distribute(heap, v, adj, k) ==
  LET n == heap[k]
      d == Partials(heap, v, k)
  IN  IF n.op \in {"const", "sym"} THEN adj
      ELSE IF Len(n.dep) = 1 THEN Accumulate(adj, n.dep[1], Times(adj[k], d[1]))
      ELSE Accumulate(Accumulate(adj, n.dep[1], Times(adj[k], d[1])),
                      n.dep[2], Times(adj[k], d[2]))

\* the adjoints once the nodes k, k - 1, ..., 1 have distributed theirs
RECURSIVE Adjoints(_, _, _, _)
Adjoints(heap, v, adj, k) ==
  IF k = 0 THEN adj
  ELSE Adjoints(heap, v, Distribute(heap, v, adj, k), k - 1)

Inputs(heap) == {k \in 1..Len(heap) : heap[k].op = "sym"}

\* ad_reverse: the sensitivities of the output, with adjoint aseed, to
\* every symbol
ad_reverse(heap, env, aseed) ==
  LET start == [k \in 1..Len(heap) |-> IF k = Len(heap) THEN aseed ELSE 0]
      adj == Adjoints(heap, eval(heap, env), start, Len(heap))
  IN  [s \in {heap[k].val : k \in Inputs(heap)} |->
         adj[CHOOSE k \in Inputs(heap) : heap[k].val = s]]

\* the directions with a unit seed on one symbol
Unit(names, s) == [r \in names |-> IF r = s THEN One ELSE 0]

\* graphs of three symbols whose nodes feed several others
Flows ==
  << \* (a*b)^2 + (a*b)*a
     << Symbol(1), Symbol(2), Symbol(3), Node("mul", <<1, 2>>, 0),
        Node("sq", <<4>>, 0), Node("mul", <<4, 1>>, 0), Node("add", <<5, 6>>, 0) >>,
     \* -(a-b) + (a-b)*c
     << Symbol(1), Symbol(2), Symbol(3), Node("sub", <<1, 2>>, 0),
        Node("neg", <<4>>, 0), Node("mul", <<4, 3>>, 0), Node("add", <<5, 6>>, 0) >>,
     \* 2(a+c) - (a+c)*(b*b)
     << Symbol(1), Symbol(2), Symbol(3), Node("add", <<1, 3>>, 0),
        Node("twice", <<4>>, 0), Node("mul", <<2, 2>>, 0),
        Node("mul", <<4, 6>>, 0), Node("sub", <<5, 7>>, 0) >>,
     \* a chain without sharing: (a*b) - 2c
     << Symbol(1), Symbol(2), Symbol(3), Node("mul", <<1, 2>>, 0),
        Node("twice", <<3>>, 0), Node("sub", <<4, 5>>, 0) >> >>

Names == {1, 2, 3}
\* whole values of the symbols, on which sums and products are exact
Wholes == {-One, One, 2 * One}

differentiate_forward ==
  /\ last.op = "graph"
  /\ LET heap == Flows[last.arg[1]]
         env == last.arg[2]
     IN  last' = [op |-> "ad_forward", arg |-> last.arg,
                  ret |-> [s \in Names |-> ad_forward(heap, env, Unit(Names, s))],
                  err |-> NoError]
  /\ UNCHANGED <<status, session, histVars>>

differentiate_reverse ==
  /\ last.op = "ad_forward"
  /\ LET heap == Flows[last.arg[1]]
         env == last.arg[2]
     IN  last' = [op |-> "ad_reverse", arg |-> last.arg,
                  ret |-> [fsens |-> last.ret, asens |-> ad_reverse(heap, env, One)],
                  err |-> NoError]
  /\ UNCHANGED <<status, session, histVars>>

InitAD ==
  /\ NoGenerator
  /\ \E g \in 1..Len(Flows), env \in [Names -> Wholes] :
       last = Pending("graph", <<g, env>>)

NextAD == differentiate_forward \/ differentiate_reverse

SpecAD == InitAD /\ [][NextAD]_vars

(***************************************************************************)
(* The integrator.  reset, integrate, resetAdj, integrateAdj and           *)
(* printStats belong to the solver behind the integrator; a call is        *)
(* recorded when it starts, and a call that throws ends the evaluation.    *)
(***************************************************************************)
Call(fn, args) == [fn |-> fn, args |-> args]

evaluate_calls_mut(integ, nfdir, nadir) ==
  << Call("reset", <<nfdir, nadir>>), Call("integrate", <<integ.tf_>>),
     Call("resetAdj", <<>>), Call("integrateAdj", <<integ.t0_>>) >>
  \o (IF integ.print_stats THEN << Call("printStats", <<>>) >> ELSE << >>)

\* the calls IntegratorInternal::evaluate makes when none of them throws
evaluate_calls(integ, nfdir, nadir) ==
  << Call("reset", <<nfdir, nadir>>), Call("integrate", <<integ.tf_>>) >>
  \o (IF nadir > 0
      THEN << Call("resetAdj", <<>>), Call("integrateAdj", <<integ.t0_>>) >>
      ELSE << >>)
  \o (IF integ.print_stats THEN << Call("printStats", <<>>) >> ELSE << >>)

\* the calls started when the call of throws, if it is made, throws
Started(calls, throws) ==
  IF \E i \in 1..Len(calls) : calls[i].fn = throws
  THEN SubSeq(calls, 1, CHOOSE i \in 1..Len(calls) : calls[i].fn = throws)
  ELSE calls

\* the most directions an evaluation is asked for
MaxDir == 2
Solver == {"reset", "integrate", "resetAdj", "integrateAdj", "printStats"}
Integrators ==
  [t0_ : {0}, tf_ : {One, 2 * One}, print_stats : BOOLEAN]

\* evaluate(nfdir, nadir)
evaluate ==
  /\ last.op = "integrator"
  /\ LET integ == last.arg[1]
         nfdir == last.arg[2]
         nadir == last.arg[3]
         throws == last.arg[4]
         calls == evaluate_calls(integ, nfdir, nadir)
         made == Started(calls, throws)
     IN  last' = [op |-> "evaluate", arg |-> last.arg, ret |-> 0, calls |-> made,
                  err |-> IF made = calls /\ made[Len(made)].fn # throws
                          THEN NoError ELSE throws]
  /\ UNCHANGED <<status, session, histVars>>

InitIntegrator ==
  /\ NoGenerator
  /\ \E integ \in Integrators, nfdir \in 0..MaxDir, nadir \in 0..MaxDir,
        throws \in Solver \cup {NoError} :
       last = Pending("integrator", <<integ, nfdir, nadir, throws>>)

NextIntegrator == evaluate

SpecIntegrator == InitIntegrator /\ [][NextIntegrator]_vars

(***************************************************************************)
(* Views on the nonzeros of a matrix.  A matrix is the sequence of its     *)
(* nonzeros, k the places a view selects; the view is itself a matrix,     *)
(* filled from the parent when it is constructed.                          *)
(***************************************************************************)
\* mat.get_nz(m, false, k): the nonzeros of mat at the places k
get_nz(mat, k) == [i \in 1..Len(k) |-> mat[k[i]]]
\* mat.set_nz(s, false, k): mat with the elements of s at the places k
set_nz(mat, s, k) ==
  [j \in 1..Len(mat) |->
     IF \E i \in 1..Len(k) : k[i] = j
     THEN s[CHOOSE i \in 1..Len(k) : k[i] = j]
     ELSE mat[j]]

\* *this op y, element by element, y a scalar
Elementwise(op, m, y) ==
  [i \in 1..Len(m) |->
     CASE op = "+=" -> m[i] + y
       [] op = "-=" -> m[i] - y
       [] op = "*=" -> m[i] * y
       [] op = "/=" -> Trunc(m[i], y)]

\* NonZeros(mat, k): the view holds the selected nonzeros of the parent
NonZeros(mat, k) == [k_ |-> k, this |-> get_nz(mat, k)]

CompoundMut(mat, view, op, y) ==
  LET s == Elementwise(op, get_nz(mat, view.k_), y)
  IN  [mat_ |-> set_nz(mat, s, view.k_), view |-> view, ret |-> s]

\* operator+=, -=, *= and /= of a view on the parent mat
Compound(mat, view, op, y) ==
  LET s == Elementwise(op, view.this, y)
  IN  [mat_ |-> set_nz(mat, s, view.k_), view |-> view, ret |-> s]

\* the most assignments made through one view
MaxAssignments == 3
CompoundOps == {"+=", "-=", "*=", "/="}
Scalars == {-2, 3}
Parents == {<<4, -6, 9>>, <<7, 1, -12>>}
Selections == {<<1>>, <<2, 3>>, <<3, 1>>}

\* a view is taken of a matrix
view_of ==
  /\ last.op = "matrix"
  /\ \E k \in Selections :
       last' = [op |-> "NonZeros", arg |-> k, ret |-> 0, err |-> NoError,
                orig |-> last.arg, mat_ |-> last.arg,
                view |-> NonZeros(last.arg, k), made |-> << >>]
  /\ UNCHANGED <<status, session, histVars>>

\* a compound assignment through the view
compound ==
  /\ last.op \in {"NonZeros", "compound"}
  /\ Len(last.made) < MaxAssignments
  /\ \E op \in CompoundOps, y \in Scalars :
       LET r == Compound(last.mat_, last.view, op, y)
       IN  last' = [op |-> "compound", arg |-> <<op, y>>, ret |-> r.ret,
                    err |-> NoError, orig |-> last.orig, mat_ |-> r.mat_,
                    view |-> r.view, made |-> Append(last.made, <<op, y>>)]
  /\ UNCHANGED <<status, session, histVars>>

InitNonZeros ==
  /\ NoGenerator
  /\ \E mat \in Parents : last = Pending("matrix", mat)

NextNonZeros == view_of \/ compound

SpecNonZeros == InitNonZeros /\ [][NextNonZeros]_vars

(***************************************************************************)
(* Claims about the pools and the registry.                                *)
(***************************************************************************)
IsPrefix(s, t) == Len(s) <= Len(t) /\ SubSeq(t, 1, Len(s)) = s
Holds(constants, v) == \E i \in 1..Len(constants) : constants[i] = v
SlotOf(constants, v) == (CHOOSE i \in 1..Len(constants) : constants[i] = v) - 1

\* C1: a request, adding allowed, for a value sequence that was requested before
\* returns the slot of its first request and leaves the pool's length unchanged,
\* in the integer pool and in the double pool.
C1_RepeatedRequestSameSlot ==
  [][ /\ (/\ last'.op = "getConstant_int"
          /\ last'.arg[2]
          /\ last'.arg[1] \in DOMAIN first_int)
         => /\ last'.err = NoError
            /\ last'.ret = first_int[last'.arg[1]]
            /\ Len(integer_constants_') = Len(integer_constants_)
      /\ (/\ last'.op = "getConstant_double"
          /\ last'.arg[2]
          /\ last'.arg[1] \in DOMAIN first_double)
         => /\ last'.err = NoError
            /\ last'.ret = first_double[last'.arg[1]]
            /\ Len(double_constants_') = Len(double_constants_) ]_vars

\* a repeated request answered with an old slot: entries were added after it
C1_Witness ==
  /\ last.op = "getConstant_double"
  /\ last.arg[2]
  /\ last.ret = first_double[last.arg[1]]
  /\ last.ret + 1 < Len(double_constants_)
  /\ Len(integer_constants_) > 1

\* C2: every value sequence keeps the slot its first request returned, two
\* different sequences with one hash included; a pool is only appended to, and a
\* new entry's slot is the pool's length before the insertion.
C2_SlotsStable ==
  [][ /\ \A v \in DOMAIN first_int' : integer_constants_'[first_int'[v] + 1] = v
      /\ \A v \in DOMAIN first_double' : double_constants_'[first_double'[v] + 1] = v
      /\ IsPrefix(integer_constants_, integer_constants_')
      /\ IsPrefix(double_constants_, double_constants_')
      /\ Len(integer_constants_') <= Len(integer_constants_) + 1
      /\ Len(double_constants_') <= Len(double_constants_) + 1
      /\ (last'.op = "getConstant_int" /\ integer_constants_' /= integer_constants_)
           => last'.ret = Len(integer_constants_)
      /\ (last'.op = "getConstant_double" /\ double_constants_' /= double_constants_)
           => last'.ret = Len(double_constants_) ]_vars

\* two different sequences with one hash sit in two slots, with a later entry
C2_Witness ==
  /\ <<1>> \in DOMAIN first_int
  /\ <<1, 1, 0, 1, 0>> \in DOMAIN first_int
  /\ hash_int(<<1>>) = hash_int(<<1, 1, 0, 1, 0>>)
  /\ first_int[<<1>>] /= first_int[<<1, 1, 0, 1, 0>>]
  /\ Len(integer_constants_) > Max({first_int[<<1>>], first_int[<<1, 1, 0, 1, 0>>]}) + 1
  /\ <<0, 1>> \in DOMAIN first_double
  /\ <<1, 0>> \in DOMAIN first_double
  /\ hash_double(<<0, 1>>) = hash_double(<<1, 0>>)
  /\ first_double[<<0, 1>>] /= first_double[<<1, 0>>]

\* C3: a lookup-only request fails with "Constant not found" on a sequence the
\* pool does not hold and returns the sequence's slot otherwise; either way the
\* pool and its hash index stay as they were.
C3_LookupOnly ==
  [][ /\ (last'.op = "getConstant_int" /\ ~last'.arg[2])
         => /\ UNCHANGED intVars
            /\ IF Holds(integer_constants_, last'.arg[1])
               THEN /\ last'.err = NoError
                    /\ last'.ret = SlotOf(integer_constants_, last'.arg[1])
               ELSE last'.err = "Constant not found"
      /\ (last'.op = "getConstant_double" /\ ~last'.arg[2])
         => /\ UNCHANGED dblVars
            /\ IF Holds(double_constants_, last'.arg[1])
               THEN /\ last'.err = NoError
                    /\ last'.ret = SlotOf(double_constants_, last'.arg[1])
               ELSE last'.err = "Constant not found" ]_vars

\* a lookup-only miss on a sequence whose hash an entry of the pool shares
C3_Witness ==
  /\ last.op = "getConstant_int"
  /\ ~last.arg[2]
  /\ last.err = "Constant not found"
  /\ \E i \in 1..Len(integer_constants_) :
       hash_int(integer_constants_[i]) = hash_int(last.arg[1])

\* C4: addSparsity on a pattern object registered before returns the slot of the
\* first registration, serializes nothing and adds nothing to the integer pool
\* or to the registry.
C4_SamePatternSameSlot ==
  [][ (last'.op = "addSparsity" /\ last'.arg \in DOMAIN first_sp)
      => /\ last'.ret = first_sp[last'.arg]
         /\ last'.calls = <<>>
         /\ UNCHANGED <<intVars, added_sparsities_>> ]_vars

\* a second registration, after constants and another pattern came in between
C4_Witness ==
  /\ last.op = "addSparsity"
  /\ last.calls = <<>>
  /\ last.ret = first_sp[last.arg]
  /\ last.ret + 2 < Len(integer_constants_)
  /\ Cardinality(DOMAIN added_sparsities_) > 1

\* C5: get_sparsity on a pattern object never registered fails and changes
\* nothing, the registry included; on a registered one it returns the slot
\* addSparsity returned.
C5_GetSparsity ==
  [][ (last'.op = "get_sparsity")
      => /\ UNCHANGED session
         /\ IF last'.arg \in DOMAIN first_sp
            THEN last'.err = NoError /\ last'.ret = first_sp[last'.arg]
            ELSE last'.err /= NoError ]_vars

\* a failed query, with other patterns registered
C5_Witness ==
  /\ last.op = "get_sparsity"
  /\ last.err /= NoError
  /\ last.arg \notin DOMAIN added_sparsities_
  /\ added_sparsities_ /= EmptyMap

\* a query answered with the slot addSparsity returned
C5_WitnessHit ==
  /\ last.op = "get_sparsity"
  /\ last.err = NoError
  /\ last.ret = first_sp[last.arg]
  /\ last.ret > 0

(***************************************************************************)
(* Claims about the auxiliary catalogue.                                   *)
(***************************************************************************)
Occurrences(block, text) ==
  Cardinality({i \in 1..(Len(text) + 1 - Len(block)) :
                 SubSeq(text, i, i + Len(block) - 1) = block})

\* the routines a routine's source calls
Prerequisites(f) == IF f = "AUX_FROM_MEX" THEN {"AUX_FILL"} ELSE {}

AuxOps == {"addAuxiliary", "copy", "fill", "dot", "to_mex", "from_mex", "project"}

\* C6: after every sequence of requests, direct or through a helper emitter,
\* the source of each requested routine and of each of its prerequisites is in
\* the auxiliary text exactly once, and a request for a tag requested before
\* changes neither the text nor the set.
C6_AuxiliaryOnce ==
  [][ /\ \A f \in asked' \cup UNION {Prerequisites(g) : g \in asked'} :
           Occurrences(AuxSource(f), auxiliaries') = 1
      /\ (last'.op \in AuxOps /\ last'.arg.tags \subseteq asked)
           => UNCHANGED auxVars ]_vars

\* fill is requested again after from_mex brought it in and to_mex followed
C6_Witness ==
  /\ last.op = "fill"
  /\ {"AUX_FROM_MEX", "AUX_FILL", "AUX_TO_MEX"} \subseteq asked
  /\ Len(auxiliaries) >= Len(AuxSource("AUX_TO_MEX"))
  /\ SubSeq(auxiliaries, Len(auxiliaries) + 1 - Len(AuxSource("AUX_TO_MEX")),
            Len(auxiliaries)) = AuxSource("AUX_TO_MEX")
  /\ mex

(***************************************************************************)
(* Claims about construction.                                              *)
(***************************************************************************)
FieldOf(k) ==
  CASE k = "verbose" -> verbose
    [] k = "mex" -> mex
    [] k = "cpp" -> cpp
    [] k = "main" -> main
    [] k = "real_t" -> real_t
    [] k = "codegen_scalars" -> codegen_scalars
    [] k = "with_header" -> with_header

DefaultOf(k) == IF k = "real_t" THEN "double" ELSE FALSE

\* C7: constructing with a key outside the seven recognized ones fails and
\* leaves no session to operate on; otherwise construction succeeds, every
\* supplied key holds the supplied value and every other key its default.
C7_Options ==
  /\ last.op = "CodeGenerator" =>
       IF DOMAIN last.arg \subseteq
            {"verbose", "mex", "cpp", "main", "real_t", "codegen_scalars", "with_header"}
       THEN /\ status = "ready"
            /\ last.err = NoError
            /\ \A k \in OptionKeys :
                 FieldOf(k) = IF k \in DOMAIN last.arg THEN last.arg[k] ELSE DefaultOf(k)
       ELSE /\ status = "failed"
            /\ last.err /= NoError
  /\ status = "failed" => (last.op = "CodeGenerator" /\ ~ENABLED NextCtor)

\* an unrecognized key beside recognized ones
C7_Witness ==
  /\ last.op = "CodeGenerator"
  /\ status = "failed"
  /\ DOMAIN last.arg = {"bogus", "mex", "real_t"}

\* recognized keys only, some supplied and some not
C7_WitnessAccepted ==
  /\ last.op = "CodeGenerator"
  /\ status = "ready"
  /\ DOMAIN last.arg = {"cpp", "real_t", "verbose"}
  /\ cpp /\ real_t = "float" /\ ~verbose /\ ~mex

(***************************************************************************)
(* Claims about rendering.                                                 *)
(***************************************************************************)
Rendered == last.op = "generate" /\ last.err = NoError
\* the primary artifact of the last render
Primary == last.ret[BaseName(last.arg) \o Suffix(last.arg)]

At(text, line) == {i \in 1..Len(text) : text[i] = line}
Span(text, block) ==
  UNION {i..(i + Len(block) - 1) :
           i \in {j \in 1..(Len(text) + 1 - Len(block)) :
                    SubSeq(text, j, j + Len(block) - 1) = block}}
Before(A, B) == \A a \in A, b \in B : a < b

PreambleAt == At(Primary, <<"#ifdef CODEGEN_PREFIX">>)
RealTAt == At(Primary, <<"#ifndef real_t">>)
ExternalsAt == At(Primary, <<"/* External functions */">>)
ShimsAt == At(Primary, <<"/* Pre-c99 compatibility */">>)
TablesAt ==
  {i \in 1..Len(Primary) :
     /\ Primary[i] /= <<>>
     /\ Primary[i][1] \in {"static const int ", "static const real_t "}}
AuxiliariesAt == Span(Primary, auxiliaries)
BodiesAt == IF body = <<>> THEN {} ELSE Span(Primary, body)
GatewaysAt ==
  At(Primary, <<"void mexFunction(int resc, mxArray *resv[], int argc, const mxArray *argv[]) {">>)
  \cup At(Primary, <<"int main(int argc, char* argv[]) {">>)

EverySectionFound ==
  /\ PreambleAt /= {} /\ RealTAt /= {} /\ ShimsAt /= {} /\ AuxiliariesAt /= {}
  /\ Cardinality(TablesAt) = Len(integer_constants_) + Len(double_constants_)
  /\ (added_externals_ /= {}) = (ExternalsAt /= {})
  /\ (mex \/ main) = (GatewaysAt /= {})

\* C8, as claimed: the sections of the primary artifact are in the order
\* preamble, type alias, external declarations, shims, constant tables,
\* auxiliary routines, function bodies, gateways.
C8_Original ==
  Rendered =>
    /\ EverySectionFound
    /\ Before(PreambleAt, RealTAt)
    /\ Before(RealTAt, ExternalsAt)
    /\ Before(RealTAt \cup ExternalsAt, ShimsAt)
    /\ Before(ShimsAt, TablesAt)
    /\ Before(TablesAt, AuxiliariesAt)
    /\ Before(ShimsAt \cup TablesAt \cup AuxiliariesAt, BodiesAt)
    /\ Before(ShimsAt \cup TablesAt \cup AuxiliariesAt \cup BodiesAt, GatewaysAt)

\* C8, as amended: the auxiliary routines come before the constant tables; the
\* order is preamble, type alias, external declarations, shims, auxiliary
\* routines, constant tables, function bodies, gateways.
C8_SectionOrder ==
  Rendered =>
    /\ EverySectionFound
    /\ Before(PreambleAt, RealTAt)
    /\ Before(RealTAt, ExternalsAt)
    /\ Before(RealTAt \cup ExternalsAt, ShimsAt)
    /\ Before(ShimsAt, AuxiliariesAt)
    /\ Before(AuxiliariesAt, TablesAt)
    /\ Before(ShimsAt \cup TablesAt \cup AuxiliariesAt, BodiesAt)
    /\ Before(ShimsAt \cup TablesAt \cup AuxiliariesAt \cup BodiesAt, GatewaysAt)

\* an artifact with every section in it
C8_Witness ==
  /\ Rendered
  /\ added_externals_ /= {}
  /\ Len(integer_constants_) > 0 /\ Len(double_constants_) > 0
  /\ "AUX_SQ" \in added_auxiliaries_
  /\ Len(exposed_fname) = 2
  /\ mex

\* C9: a render leaves the session as it was, so a render that follows a render
\* of the same name writes the same text.
C9_RenderKeepsState ==
  [][ /\ last'.op \in {"generate", "generate_string"} => UNCHANGED session
      /\ (last.op = "generate" /\ last'.op = "generate" /\ last'.arg = last.arg)
           => last'.ret = last.ret ]_vars

\* a render of a session that holds something of everything
C9_Witness ==
  /\ Rendered
  /\ body /= <<>> /\ header /= <<>> /\ exposed_fname /= <<>>
  /\ Cardinality(added_externals_) = 2
  /\ Len(integer_constants_) > 0 /\ Len(double_constants_) > 0
  /\ "AUX_SQ" \in added_auxiliaries_
  /\ includes /= <<>>

\* the arguments the gateway is run on
Str(cs) == [str |-> cs]
NotAString == [num |-> 3]
MexArgs ==
  {<<>>, <<NotAString>>, <<Str(<<>>)>>, <<Str(<<"f">>)>>, <<Str(<<"f">>), NotAString>>,
   <<Str(<<"g">>)>>, <<Str(<<"g", "g">>), Str(<<"f">>), NotAString>>,
   <<Str(<<"g", "g", "g">>)>>, <<Str(<<"h">>), Str(<<"f">>)>>}

Registered(argv) ==
  /\ argv /= <<>>
  /\ IsString(argv[1])
  /\ \E i \in 1..Len(exposed_fname) : exposed_fname[i] = argv[1].str

\* the names the gateway's tests compare with, in the order of the tests
TestedNames(text) ==
  LET tests == SelectSeq(text, LAMBDA l : l /= <<>> /\ l[1] = "  } else if (strcmp(buf, \"")
  IN  [k \in 1..Len(tests) |-> SubSeq(tests[k], 2, Len(tests[k]) - 1)]

\* C10: with mex set, the gateway tests its first argument against the exposed
\* names in registration order, calls mex_<name> of the name that matches with
\* the remaining arguments, and otherwise reports the error whose message lists
\* every exposed name in registration order.
C10_MexDispatch ==
  (Rendered /\ mex) =>
    /\ TestedNames(Primary) = exposed_fname
    /\ \A argv \in MexArgs :
         RunMexFunction(Primary, argv) =
           IF Registered(argv)
           THEN [kind |-> "call",
                 fn   |-> <<"    return mex_">> \o argv[1].str,
                 argc |-> Len(argv) - 1,
                 argv |-> Tail(argv)]
           ELSE [kind |-> "error",
                 msg  |-> <<"  mexErrMsgTxt(\"First input should be a command string. Possible values:">>
                          \o Concat([i \in 1..Len(exposed_fname) |->
                                       <<" '">> \o exposed_fname[i] \o <<"'">>])
                          \o <<"\");">>]

\* a gateway over two names that dispatches one call and rejects another
C10_Witness ==
  /\ Rendered /\ mex
  /\ exposed_fname = << <<"g", "g">>, <<"f">> >>
  /\ RunMexFunction(Primary, <<Str(<<"g", "g">>), Str(<<"f">>), NotAString>>).kind = "call"
  /\ RunMexFunction(Primary, <<Str(<<"g", "g", "g">>)>>).kind = "error"


(***************************************************************************)
(* Claims about the command-line dispatcher.                               *)
(***************************************************************************)
\* the process arguments the dispatcher is run on, argv[0] first
MainArgs ==
  {<<>>, << <<"p">> >>, << <<"p">>, <<>> >>, << <<"p">>, <<"f">> >>,
   << <<"p">>, <<"g">> >>, << <<"p">>, <<"g", "g">>, <<"f">>, <<"x">> >>,
   << <<"p">>, <<"h">>, <<"f">> >>, << <<"f">> >>}

Exposed(argv) ==
  /\ Len(argv) >= 2
  /\ \E i \in 1..Len(exposed_fname) : exposed_fname[i] = argv[2]

\* C11: with main set, the generated dispatcher exits with a non-zero status
\* whenever the first process argument is missing or is no exposed name, and
\* for an exposed name it returns main_<name>(argc-2, argv+2).
C11_MainDispatch ==
  (Rendered /\ main) =>
    \A argv \in MainArgs :
      LET r == RunMain(Primary, argv)
      IN  IF Exposed(argv)
          THEN r = [kind |-> "call",
                    fn   |-> <<"    return main_">> \o argv[2],
                    argc |-> Len(argv) - 2,
                    argv |-> SubSeq(argv, 3, Len(argv))]
          ELSE r.kind = "exit" /\ r.status > 0

\* a dispatcher over two names that runs one entry and rejects two calls
C11_Witness ==
  /\ Rendered /\ main
  /\ exposed_fname = << <<"g", "g">>, <<"f">> >>
  /\ RunMain(Primary, << <<"p">>, <<"f">>, <<"x">> >>).kind = "call"
  /\ RunMain(Primary, << <<"p">> >>).kind = "exit"
  /\ RunMain(Primary, << <<"p">>, <<"h">>, <<"f">> >>).kind = "exit"


(***************************************************************************)
(* Claims about compile.                                                   *)
(***************************************************************************)
Compiled == last.op = "compile"
Kinds(calls) == [i \in 1..Len(calls) |-> calls[i].kind]

\* C12: compile removes the old files, writes the artifact and invokes the
\* build in this order, each at most once; a non-zero answer to the removal
\* fails compile before anything is written or built, a non-zero answer to the
\* build fails compile, and only when both answer zero is "./<name>.so" returned.
C12_CompileOrder ==
  Compiled =>
    LET calls == last.calls
        name  == last.arg[1]
    IN  /\ IsPrefix(Kinds(calls), <<"system", "generate", "system">>)
        /\ calls /= <<>>
        /\ calls[1].cmd = rm_command(name)
        /\ Len(calls) = 3 => calls[3].cmd = compile_command(name, last.arg[2])
        /\ calls[1].flag /= 0 => last.err /= NoError /\ Len(calls) = 1
        /\ (Len(calls) = 3 /\ calls[3].flag /= 0) => last.err /= NoError
        /\ last.err = NoError <=>
             (Len(calls) = 3 /\ calls[1].flag = 0 /\ calls[3].flag = 0)
        /\ last.err = NoError => last.ret = <<".", "/">> \o name \o <<".", "s", "o">>
        /\ last.err /= NoError => last.ret = <<>>

\* a compile whose removal failed, one whose build failed, one that succeeded
C12_WitnessRemoval ==
  Compiled /\ last.calls[1].flag /= 0 /\ body /= <<>>
C12_WitnessBuild ==
  Compiled /\ Len(last.calls) = 3 /\ last.calls[3].flag /= 0 /\ body /= <<>>
C12_Witness ==
  /\ Compiled /\ last.err = NoError /\ body /= <<>>
  /\ last.ret = <<".", "/", "f", ".", "s", "o">>


(***************************************************************************)
(* Claims about the files a render writes.                                 *)
(***************************************************************************)
HasDot(name) == \E i \in 1..Len(name) : name[i] = "."
\* the part of a name before its last dot, the whole name when it has no dot
Stem(name) ==
  IF HasDot(name)
  THEN SubSeq(name, 1, Max({i \in 1..Len(name) : name[i] = "."}) - 1)
  ELSE name
DefaultExtension == IF cpp THEN <<".", "c", "p", "p">> ELSE <<".", "c">>
HeaderName(name) == Stem(name) \o <<".", "h">>
HeaderFiles(name) == IF with_header THEN {HeaderName(name)} ELSE {}

\* C13 as stated: every render writes <basename>.c or <basename>.cpp, by the
\* cpp option alone, and <basename>.h exactly when with_header is set.
C13_Original ==
  Rendered =>
    DOMAIN last.ret = {Stem(last.arg) \o DefaultExtension} \cup HeaderFiles(last.arg)

\* C13: a render of a name without a dot writes the primary artifact to
\* <name>.c with cpp off and <name>.cpp with cpp on; a render of a name with a
\* dot writes it to the name as given, whatever cpp is; the declaration
\* artifact is written exactly when with_header is set, to <basename>.h, the
\* base name being the part of the name before its last dot.
C13_FileNames ==
  Rendered =>
    LET primary == IF HasDot(last.arg) THEN last.arg
                   ELSE last.arg \o DefaultExtension
    IN  /\ DOMAIN last.ret = {primary} \cup HeaderFiles(last.arg)
        /\ last.ret[primary] = PrimaryText(last.arg)
        /\ with_header => last.ret[HeaderName(last.arg)] = HeaderText

\* a render with cpp and with_header set of a name that brings its own suffix
C13_Witness ==
  /\ Rendered /\ cpp /\ with_header /\ body /= <<>>
  /\ last.arg = <<"g", ".", "c", "x", "x">>
  /\ DOMAIN last.ret = {<<"g", ".", "c", "x", "x">>, <<"g", ".", "h">>}
\* a render of a name without a dot
C13_WitnessDefault ==
  /\ Rendered /\ ~cpp /\ ~with_header /\ body /= <<>>
  /\ DOMAIN last.ret = {<<"f", ".", "c">>}


\* C14: a render whose base name fails the function-name check raises an
\* error and writes no file, neither the primary artifact nor the header.
C14_MalformedNameAborts ==
  (last.op = "generate" /\ ~check_name(Stem(last.arg))) =>
    /\ last.err /= NoError
    /\ DOMAIN last.ret = {}

\* a render, with a header asked for, of a name that starts with a digit
C14_Witness ==
  /\ last.op = "generate" /\ last.arg = <<"1", "f">>
  /\ with_header /\ header /= <<>> /\ body /= <<>>
  /\ last.err /= NoError


(***************************************************************************)
(* Claims about the formatters.                                            *)
(***************************************************************************)
Formatted == last.op = "constant"
\* a string in scientific notation holds an exponent mark
IsScientific(s) == \E i \in 1..Len(s) : s[i] = "e"
\* the decimal digits of a whole double and a dot
IntegerDot(v) == to_string(Truncated(v)) \o <<".">>

\* C15 as stated: every finite whole double, of any magnitude and sign, is
\* written as its integer's digits and a dot, and scientific notation is used
\* only for finite doubles that are not whole.
C15_Original ==
  Formatted =>
    /\ IsWhole(last.arg) => last.ret = IntegerDot(last.arg)
    /\ IsScientific(last.ret) => (last.arg.kind = "finite" /\ ~IsWhole(last.arg))

\* C15, what the formatter does: a finite whole double that an int holds is
\* written as its integer's digits and a dot; every other finite double, the
\* whole ones outside the range of int included, is written in scientific
\* notation; NaN and the infinities are written by name.
C15_ConstantFormat ==
  Formatted =>
    LET v == last.arg
    IN  /\ (IsWhole(v) /\ Truncated(v) \in Ints) => last.ret = IntegerDot(v)
        /\ (v.kind = "finite" /\ ~(IsWhole(v) /\ Truncated(v) \in Ints)) =>
             last.ret = scientific(v)
        /\ isnan(v) => last.ret = <<"N", "A", "N">>
        /\ isinf(v) => ~IsScientific(last.ret)

\* a whole double past the largest int, written in scientific notation
C15_Witness ==
  /\ Formatted /\ last.arg = Finite(FALSE, 2 * (INT_MAX + 1))
  /\ IsScientific(last.ret)
\* a negative whole double that an int holds
C15_WitnessWhole ==
  Formatted /\ last.arg = Finite(TRUE, 6) /\ last.ret = <<"-", "3", ".">>
\* a double that is not whole
C15_WitnessFraction ==
  /\ Formatted /\ last.arg = Finite(FALSE, 3)
  /\ last.ret = <<"1", ".", "5">> \o Zeros(15) \o <<"e", "+", "0", "0">>


\* the ways a generated line refers to work temporary n
BareName(n) == <<"w">> \o to_string(n)
AddressOf(n) == <<"(", "&", "w">> \o to_string(n) \o <<")">>
Dereferenced(n) == <<"*", "w">> \o to_string(n)
Subscripted(n) == <<"w">> \o to_string(n) \o <<"[", "0", "]">>
\* a request for a width-1 temporary as a vector, and one for its element
AsVector == last.op = "work" /\ last.arg[1] >= 0 /\ last.arg[2] = 1
AsElement == last.op = "workel" /\ last.arg >= 0

\* C16 as stated: with codegen_scalars set, work(n,1) and workel(n) both name
\* the temporary as a bare scalar; with it clear, the temporary is an array,
\* named by work(n,1) and read at offset 0 by workel(n).
C16_Original ==
  /\ AsVector => last.ret = BareName(last.arg[1])
  /\ AsElement =>
       IF codegen_scalars THEN last.ret = BareName(last.arg)
       ELSE last.ret \in {Dereferenced(last.arg), Subscripted(last.arg)}

\* C16: with codegen_scalars clear (the default), a width-1 work temporary is
\* a bare scalar: workel(n) is its name w<n> and work(n,1) is its address
\* (&w<n>); with codegen_scalars set it is reached through a pointer: work(n,1)
\* is the name w<n> and workel(n) reads its one element as *w<n>.
C16_WorkReferences ==
  /\ AsVector =>
       last.ret = IF codegen_scalars THEN BareName(last.arg[1])
                  ELSE AddressOf(last.arg[1])
  /\ AsElement =>
       last.ret = IF codegen_scalars THEN Dereferenced(last.arg)
                  ELSE BareName(last.arg)

\* an element reference with codegen_scalars set, to a two-digit temporary
C16_Witness ==
  /\ AsElement /\ codegen_scalars /\ last.arg = 10
  /\ last.ret = <<"*", "w", "1", "0">>
\* a vector reference under the default options
C16_WitnessDefault ==
  /\ AsVector /\ ~codegen_scalars /\ last.arg[1] = 0
  /\ last.ret = <<"(", "&", "w", "0", ")">>


(***************************************************************************)
(* Claims about the table of atomic operations.                            *)
(***************************************************************************)
Evaluated == last.op = "atomic"
ZeroDerivative ==
  {"lt", "le", "eq", "ne", "and", "or", "not", "floor", "ceil", "sign"}

\* C17: the derivative rule of less-than, less-or-equal, equal, not-equal,
\* and, or, not, floor, ceil and sign is zero for every operand, at every
\* operand value.
C17_ZeroDerivatives ==
  (Evaluated /\ last.arg[1] \in ZeroDerivative) =>
    \A i \in 1..Len(last.ret.d) : last.ret.d[i] = 0

\* sign at a negative operand, where fabs of the same operand has slope -1
C17_Witness ==
  /\ Evaluated /\ last.arg[1] = "sign" /\ last.arg[2] < 0
  /\ last.ret.f = -One /\ last.ret.d = <<0>>
\* a comparison of two equal operands
C17_WitnessTie ==
  /\ Evaluated /\ last.arg[1] = "le" /\ last.arg[2] = last.arg[3]
  /\ last.ret.f = One /\ last.ret.d = <<0, 0>>

\* C18: the derivative row of min and of max is a selection: one entry is 1
\* and the other 0, the first is 1 exactly when the first operand attains the
\* extremum (x<=y for min, x>=y for max), and a tie gives (1, 0).
C18_MinMaxSelection ==
  (Evaluated /\ last.arg[1] \in {"fmin", "fmax"}) =>
    LET x == last.arg[2]
        y == last.arg[3]
        d == last.ret.d
        first == IF last.arg[1] = "fmin" THEN x <= y ELSE x >= y
    IN  /\ d \in {<<One, 0>>, <<0, One>>}
        /\ d[1] = One <=> first
        /\ first => last.ret.f = x
        /\ x = y => d = <<One, 0>>

\* min of two equal operands
C18_Witness ==
  /\ Evaluated /\ last.arg[1] = "fmin" /\ last.arg[2] = last.arg[3]
  /\ last.ret.d = <<One, 0>>
\* max whose second operand is the larger
C18_WitnessSecond ==
  /\ Evaluated /\ last.arg[1] = "fmax" /\ last.arg[2] < last.arg[3]
  /\ last.ret.d = <<0, One>>


\* the step of the central difference and the tolerance of the comparison
Step == Scale \div 20
Tolerance == Scale \div 10
Near(a, b) == a - b <= Tolerance /\ b - a <= Tolerance

\* the operands with operand i moved by e
Moved(x, y, i, e) == IF i = 1 THEN <<x + e, y>> ELSE <<x, y + e>>
\* the central-difference estimate of the derivative of fcn in operand i
CentralDifference(op, x, y, i) ==
  LET hi == Moved(x, y, i, Step)
      lo == Moved(x, y, i, -Step)
  IN  Over(fcn(op, hi[1], hi[2]) - fcn(op, lo[1], lo[2]), 2 * Step)

Apart(a, b) == a - b > Step \/ b - a > Step
\* fcn has no kink within a step of the operands, and no pole near them, in
\* operand i
NonBoundary(op, x, y, i) ==
  /\ \A e \in {-Step, Step} : InDomain(op, Moved(x, y, i, e)[1], Moved(x, y, i, e)[2])
  /\ CASE op \in {"lt", "le", "eq", "ne", "fmin", "fmax"} -> Apart(x, y)
       [] op \in {"floor", "ceil"} -> floor(x - Step) = floor(x + Step)
       [] op \in {"not", "sign", "fabs", "if_else_zero"} -> Apart(x, 0)
       [] op \in {"and", "or", "copysign"} -> Apart(x, 0) /\ Apart(y, 0)
       [] op \in {"sqrt"} -> x > Step
       \* the estimate is within the tolerance half a unit away from a pole
       [] op \in {"inv"} -> fabs(x) >= Tenths(5)
       [] op \in {"div"} -> fabs(y) >= Tenths(5)
       [] op \in {"fmod"} ->
            /\ Apart(y, 0)
            /\ \A e \in {-Step, Step} :
                 /\ Trunc(x + e, y) = Trunc(x, y)
                 /\ Trunc(x, y + e) = Trunc(x, y)
       [] OTHER -> TRUE

\* C19 as stated: for every operation of the table and every operand, the
\* derivative rule agrees with the central-difference estimate of fcn at
\* every point that is not a boundary point.
C19_Original ==
  Evaluated =>
    \A i \in 1..Len(last.ret.d) :
      NonBoundary(last.arg[1], last.arg[2], last.arg[3], i) =>
        Near(last.ret.d[i],
             CentralDifference(last.arg[1], last.arg[2], last.arg[3], i))

\* the rules that do not give the partial derivative of their fcn
Deviates(op, x, y, i) ==
  \/ op = "cosh"
  \/ op = "copysign" /\ i = 1 /\ x < 0
  \/ op = "constpow" /\ i = 2

\* C19, what the table does: away from boundary points every rule agrees with
\* the central-difference estimate of its fcn, except that the rule of cosh
\* is minus the derivative, the rule of copysign in its first operand is minus
\* the derivative where that operand is negative, and the rule of the power
\* with a constant exponent gives 0 for the exponent.
C19_DerivativeRules ==
  Evaluated =>
    \A i \in 1..Len(last.ret.d) :
      LET op == last.arg[1]
          x  == last.arg[2]
          y  == last.arg[3]
          cd == CentralDifference(op, x, y, i)
      IN  NonBoundary(op, x, y, i) =>
            /\ ~Deviates(op, x, y, i) => Near(last.ret.d[i], cd)
            /\ (op \in {"cosh", "copysign"} /\ Deviates(op, x, y, i)) =>
                 Near(last.ret.d[i], -cd)
            /\ op = "constpow" /\ i = 2 => last.ret.d[i] = 0

\* cosh at a positive operand, where the rule has the sign of -sinh
C19_Witness ==
  /\ Evaluated /\ last.arg[1] = "cosh" /\ last.arg[2] = Tenths(6)
  /\ last.ret.d[1] < -Tolerance
  /\ CentralDifference("cosh", Tenths(6), 0, 1) > Tolerance
\* a rule that agrees: tanh, whose derivative is computed from f
C19_WitnessAgrees ==
  /\ Evaluated /\ last.arg[1] = "tanh" /\ last.arg[2] = Tenths(6)
  /\ Near(last.ret.d[1], CentralDifference("tanh", Tenths(6), 0, 1))
  /\ last.ret.d[1] > Tolerance


(***************************************************************************)
(* Claims about the rules of addition.                                     *)
(***************************************************************************)
Added == last.op = "plus"
Unchanged(r) == r.heap = Graph

\* C20 as stated: for every node x, a zero x included, adding a zero constant
\* to x returns the node x itself, allocating nothing.
C20_Original ==
  (Added /\ is_zero(Graph, last.arg[2])) =>
    last.ret.ret = last.arg[1] /\ Unchanged(last.ret)

\* C20: adding a zero constant to a node x that is not zero returns the node
\* x itself and allocates nothing; when x is zero too the second operand is
\* returned, which is x only when both operands are one node.
C20_AddZero ==
  (Added /\ is_zero(Graph, last.arg[2])) =>
    /\ Unchanged(last.ret)
    /\ ~is_zero(Graph, last.arg[1]) => last.ret.ret = last.arg[1]
    /\ is_zero(Graph, last.arg[1]) => last.ret.ret = last.arg[2]

\* a product plus a zero constant
C20_Witness ==
  /\ Added /\ last.arg[1] = 8 /\ last.arg[2] = 4
  /\ last.ret.ret = 8
\* a zero constant plus another zero constant
C20_WitnessZero ==
  /\ Added /\ last.arg[1] = 3 /\ last.arg[2] = 4
  /\ last.ret.ret = 4


SquareOf(n, op) == is_op(Graph, n, "sq") /\ is_op(Graph, dep(Graph, n, 0), op)
Argument(n) == dep(Graph, dep(Graph, n, 0), 0)
\* the operands are a squared sine and a squared cosine, in either order
SineAndCosine(x, y) ==
  \/ SquareOf(x, "sin") /\ SquareOf(y, "cos")
  \/ SquareOf(x, "cos") /\ SquareOf(y, "sin")
IsNewConstant(r, v) ==
  /\ r.heap = Append(Graph, Constant(v))
  /\ r.ret = Len(Graph) + 1

\* C21: the sum of a squared sine and a squared cosine, in either order, is
\* the constant 1 whenever their arguments are equal at the configured depth;
\* no earlier rule takes such operands.
C21_SinCosSquares ==
  (/\ Added
   /\ SineAndCosine(last.arg[1], last.arg[2])
   /\ is_equal(Graph, Argument(last.arg[1]), Argument(last.arg[2]), last.arg[3]))
  => IsNewConstant(last.ret, One)

\* cos(a)^2 + sin(a)^2 on one node a, compared by identity
C21_Witness ==
  /\ Added /\ last.arg = <<18, 17, 0>>
  /\ IsNewConstant(last.ret, One)
\* sin(-a)^2 + cos(-a)^2 on two negations built apart, equal at depth 1
C21_WitnessDepth ==
  /\ Added /\ last.arg = <<22, 26, 1>>
  /\ Argument(22) # Argument(26)
  /\ IsNewConstant(last.ret, One)
\* the same operands compared by identity are added, not rewritten
C21_WitnessApart ==
  /\ Added /\ last.arg = <<22, 26, 0>>
  /\ is_op(last.ret.heap, last.ret.ret, "add")


Compared == last.op = "is_equal"
\* two products built apart from the same operands, as a = x*x and b = x*x
BuiltTwice(a, b) ==
  /\ a # b
  /\ is_op(Graph, a, "mul") /\ is_op(Graph, b, "mul")
  /\ Graph[a].dep = Graph[b].dep

\* C22: at depth 0 two nodes are equal exactly when they are one node; two
\* products built apart from the same operands differ at depth 0 and are
\* equal at depth 1; nodes equal at a depth are equal at the next depth.
C22_EqualDepth ==
  Compared =>
    LET a == last.arg[1]
        b == last.arg[2]
        depth == last.arg[3]
    IN  /\ depth = 0 => (last.ret <=> a = b)
        /\ (BuiltTwice(a, b) /\ depth = 0) => ~last.ret
        /\ (BuiltTwice(a, b) /\ depth = 1) => last.ret
        /\ last.ret => is_equal(Graph, a, b, depth + 1)

\* x*x and x*x built apart, compared at depth 1
C22_Witness ==
  /\ Compared /\ last.arg = <<27, 28, 1>>
  /\ BuiltTwice(27, 28) /\ last.ret
C22_WitnessIdentity ==
  /\ Compared /\ last.arg = <<27, 28, 0>>
  /\ ~last.ret
\* cos(-a) on two negations built apart: unequal at depth 1, equal at depth 2
C22_WitnessDeeper ==
  /\ Compared /\ last.arg = <<21, 25, 1>>
  /\ ~last.ret /\ is_equal(Graph, 21, 25, 2)


(***************************************************************************)
(* Claims about the traversals.                                            *)
(***************************************************************************)
Differentiated == last.op = "ad_reverse"
\* some node of the graph is an operand of two different nodes
Shared(heap) ==
  \E k \in 1..Len(heap), m, n \in 1..Len(heap) :
    /\ m # n
    /\ \E i \in 1..Len(heap[m].dep) : heap[m].dep[i] = k
    /\ \E i \in 1..Len(heap[n].dep) : heap[n].dep[i] = k

\* C23: the sensitivities ad_reverse accumulates from a unit adjoint of the
\* output equal, symbol by symbol, those of ad_forward run once for each
\* symbol with a unit seed on it.
C23_ReverseIsForward ==
  Differentiated => \A s \in Names : last.ret.asens[s] = last.ret.fsens[s]

\* (a*b)^2 + (a*b)*a at a = 2, b = -1: the derivatives are 2ab^2 + 2ab and 2a^2b + a^2
C23_Witness ==
  /\ Differentiated /\ last.arg[1] = 1 /\ Shared(Flows[1])
  /\ last.arg[2] = [s \in Names |-> IF s = 1 THEN 2 * One ELSE IF s = 2 THEN -One ELSE One]
  /\ last.ret.asens[1] = 0 /\ last.ret.fsens[2] = -4 * One


(***************************************************************************)
(* Claims about the order of the auxiliary text.                           *)
(***************************************************************************)
\* the places of a routine's source in a text
Places(block, text) ==
  {i \in 1..(Len(text) + 1 - Len(block)) : SubSeq(text, i, i + Len(block) - 1) = block}
FillSource == AuxSource("AUX_FILL")
FromMexSource == AuxSource("AUX_FROM_MEX")

\* C24: once the marshaller from_mex is among the added routines, the source
\* of fill lies in the auxiliary text before the source of from_mex,
\* whether fill came with the marshaller or was requested before it.
C24_FillBeforeFromMex ==
  "AUX_FROM_MEX" \in added_auxiliaries_ =>
    /\ Places(FromMexSource, auxiliaries) # {}
    /\ \A j \in Places(FromMexSource, auxiliaries) :
         \E i \in Places(FillSource, auxiliaries) : i + Len(FillSource) <= j

\* from_mex brought fill in: the two sources are the whole catalogue
C24_Witness ==
  /\ last.op = "from_mex"
  /\ added_auxiliaries_ = {"AUX_FILL", "AUX_FROM_MEX"}
  /\ \E i \in Places(FillSource, auxiliaries) :
       /\ i + Len(FillSource) \in Places(FromMexSource, auxiliaries)
       /\ i + Len(FillSource) + Len(FromMexSource) = Len(auxiliaries) + 1
\* fill was requested on its own, then dot, then from_mex
C24_WitnessEarlier ==
  /\ last.op = "from_mex"
  /\ \E i \in Places(FillSource, auxiliaries) :
       /\ i + Len(FillSource) \in Places(AuxSource("AUX_DOT"), auxiliaries)
       /\ i + Len(FillSource) + Len(AuxSource("AUX_DOT"))
            \in Places(FromMexSource, auxiliaries)


\* the values the symbols of the graph take
SymbolValues == {Tenths(-15), Tenths(3), Tenths(20)}
Environments == [{1, 2} -> SymbolValues]
\* the error that rounding leaves in a sum of two rounded terms
Rounding == Scale \div 1000
Close(a, b) == a - b <= Rounding /\ b - a <= Rounding

\* the rules of addition in the order of the code, and what each returns
Rules ==
  <<"zero x", "zero y", "negated y", "negated x", "halves", "quotients",
    "difference x", "difference y", "squares">>
Matches(rule, x, y, depth) ==
  CASE rule = "zero x" -> is_zero(Graph, x)
    [] rule = "zero y" -> is_zero(Graph, y)
    [] rule = "negated y" -> is_op(Graph, y, "neg")
    [] rule = "negated x" -> is_op(Graph, x, "neg")
    [] rule = "halves" ->
         /\ is_op(Graph, x, "mul") /\ is_op(Graph, y, "mul")
         /\ Graph[dep(Graph, x, 0)] = Constant(half)
         /\ Graph[dep(Graph, y, 0)] = Constant(half)
         /\ is_equal(Graph, dep(Graph, y, 1), dep(Graph, x, 1), depth)
    [] rule = "quotients" ->
         /\ is_op(Graph, x, "div") /\ is_op(Graph, y, "div")
         /\ Graph[dep(Graph, x, 1)] = Constant(two)
         /\ Graph[dep(Graph, y, 1)] = Constant(two)
         /\ is_equal(Graph, dep(Graph, y, 0), dep(Graph, x, 0), depth)
    [] rule = "difference x" ->
         is_op(Graph, x, "sub") /\ is_equal(Graph, dep(Graph, x, 1), y, depth)
    [] rule = "difference y" ->
         is_op(Graph, y, "sub") /\ is_equal(Graph, x, dep(Graph, y, 1), depth)
    [] rule = "squares" ->
         /\ SineAndCosine(x, y)
         /\ is_equal(Graph, Argument(x), Argument(y), depth)
\* the first rule that matches, or 0 when none does
Decides(x, y, depth) ==
  IF \E i \in 1..Len(Rules) : Matches(Rules[i], x, y, depth)
  THEN CHOOSE i \in 1..Len(Rules) :
         /\ Matches(Rules[i], x, y, depth)
         /\ \A j \in 1..(i - 1) : ~Matches(Rules[j], x, y, depth)
  ELSE 0
\* the node a result stands for, as operation and operands
Returned(r) == r.heap[r.ret]
Rewrites(rule, x, y, r) ==
  CASE rule = "zero x" -> r = Old(Graph, y)
    [] rule = "zero y" -> r = Old(Graph, x)
    [] rule = "negated y" ->
         /\ Returned(r).op = "sub" /\ Returned(r).dep[1] = x
         /\ r.heap[Returned(r).dep[2]] = Node("neg", <<y>>, 0)
    [] rule = "negated x" -> Returned(r) = Node("sub", <<y, dep(Graph, x, 0)>>, 0)
    [] rule = "halves" -> r = Old(Graph, dep(Graph, x, 1))
    [] rule = "quotients" -> r = Old(Graph, dep(Graph, x, 0))
    [] rule = "difference x" -> r = Old(Graph, dep(Graph, x, 0))
    [] rule = "difference y" -> r = Old(Graph, dep(Graph, y, 0))
    [] rule = "squares" -> IsNewConstant(r, One)
\* the result has, for every value of the symbols, the value of x + y
SameValue(x, y, r) ==
  \A env \in Environments :
    Close(eval(r.heap, env)[r.ret],
          fcn("add", eval(Graph, env)[x], eval(Graph, env)[y]))

\* C25: whatever addition returns has, for all values of the symbols, the
\* value of the sum of its operands; the first rule that matches, in the
\* order of the code, decides what is returned, and with no rule matching a
\* new addition is built.
C25_RewritesPreserveValue ==
  Added =>
    LET x == last.arg[1]
        y == last.arg[2]
        first == Decides(x, y, last.arg[3])
    IN  /\ SameValue(x, y, last.ret)
        /\ first = 0 => Returned(last.ret) = Node("add", <<x, y>>, 0)
        /\ first # 0 => Rewrites(Rules[first], x, y, last.ret)

\* (-a) + (-a): the rule for a negated second operand comes first
C25_Witness ==
  /\ Added /\ last.arg = <<7, 24, 0>>
  /\ Matches("negated y", 7, 24, 0) /\ Matches("negated x", 7, 24, 0)
  /\ Returned(last.ret).op = "sub" /\ Returned(last.ret).dep[1] = 7
  /\ SameValue(7, 24, last.ret)
\* (b - a) + a is b
C25_WitnessDifference ==
  /\ Added /\ last.arg = <<13, 1, 0>>
  /\ last.ret = Old(Graph, 2)
\* a/2 + b/2 matches no rule
C25_WitnessNone ==
  /\ Added /\ last.arg = <<11, 12, 1>>
  /\ Decides(11, 12, 1) = 0
  /\ Returned(last.ret).op = "add"


(***************************************************************************)
(* Claims about the integrator.                                            *)
(***************************************************************************)
Integrated == last.op = "evaluate"
\* the places in the calls of an evaluation where fn starts
Starts(fn) == {i \in 1..Len(last.calls) : last.calls[i].fn = fn}
\* every start of fn comes after a start of each call of before
After(fn, before) ==
  \A i \in Starts(fn) : \A b \in before : \E j \in Starts(b) : j < i

\* C26: an evaluation starts reset first, forward integration to tf after
\* it, and resetAdj and then backward integration to t0 only with nadir > 0
\* and after forward integration; each of them starts at most once, and all
\* of them start when none throws.
C26_EvaluatePhases ==
  Integrated =>
    LET integ == last.arg[1]
        nadir == last.arg[3]
    IN  /\ After("integrate", {"reset"})
        /\ After("resetAdj", {"reset", "integrate"})
        /\ After("integrateAdj", {"reset", "integrate", "resetAdj"})
        /\ \A fn \in Solver : Cardinality(Starts(fn)) <= 1
        /\ nadir = 0 => Starts("resetAdj") = {} /\ Starts("integrateAdj") = {}
        /\ \A i \in Starts("integrate") : last.calls[i].args = <<integ.tf_>>
        /\ \A i \in Starts("integrateAdj") : last.calls[i].args = <<integ.t0_>>
        /\ last.err = NoError =>
             /\ Starts("reset") = {1} /\ Starts("integrate") = {2}
             /\ nadir > 0 => Starts("resetAdj") = {3} /\ Starts("integrateAdj") = {4}

\* an evaluation with adjoint directions in which nothing throws
C26_Witness ==
  /\ Integrated /\ last.arg[3] = 2 /\ last.err = NoError
  /\ Starts("integrateAdj") = {4}
\* an evaluation without adjoint directions
C26_WitnessForward ==
  /\ Integrated /\ last.arg[3] = 0 /\ last.err = NoError
  /\ Len(last.calls) = 2
\* resetAdj throws: backward integration never starts
C26_WitnessThrows ==
  /\ Integrated /\ last.arg[3] = 1 /\ last.err = "resetAdj"
  /\ Len(last.calls) = 3


(***************************************************************************)
(* Claims about views on nonzeros.                                         *)
(***************************************************************************)
Assigned == last.op = "compound"
\* the assignments made, applied in order to the values m
RECURSIVE AppliedInOrder(_, _)
AppliedInOrder(made, m) ==
  IF made = << >> THEN m
  ELSE AppliedInOrder(Tail(made), Elementwise(made[1][1], m, made[1][2]))
Selected == get_nz(last.mat_, last.view.k_)
Original == get_nz(last.orig, last.view.k_)

\* C27 as stated: after any sequence of compound assignments through one
\* view the selected elements of the parent are the original values with
\* all the assignments applied in order, and each returns what it wrote.
C27_Original ==
  Assigned =>
    /\ Selected = AppliedInOrder(last.made, Original)
    /\ last.ret = Selected

\* C27: each compound assignment returns what it wrote to the parent, which
\* is the operation applied to the values the view took at its
\* construction: the first assignment through a view applies to the
\* original values, and a later one discards the ones before it.
C27_CompoundAssignment ==
  Assigned =>
    /\ last.ret = Selected
    /\ Selected = Elementwise(last.arg[1], Original, last.arg[2])
    /\ Len(last.made) = 1 => Selected = AppliedInOrder(last.made, Original)
    /\ \A j \in 1..Len(last.mat_) :
         (\A i \in 1..Len(last.view.k_) : last.view.k_[i] # j)
           => last.mat_[j] = last.orig[j]

\* A[k] += 3 through a fresh view
C27_Witness ==
  /\ Assigned /\ last.made = << <<"+=", 3>> >>
  /\ last.orig = <<4, -6, 9>> /\ last.view.k_ = <<2, 3>>
  /\ last.mat_ = <<4, -3, 12>>
\* += 3 twice through one view: the parent holds 4 + 3, not 4 + 3 + 3
C27_WitnessStale ==
  /\ Assigned /\ last.made = << <<"+=", 3>>, <<"+=", 3>> >>
  /\ last.orig = <<4, -6, 9>> /\ last.view.k_ = <<1>>
  /\ last.mat_ = <<7, -6, 9>>


\* what *e denotes in C: the object x when e is the address (&x)
Deref(e) ==
  IF Len(e) >= 3 /\ SubSeq(e, 1, 2) = <<"(", "&">> /\ e[Len(e)] = ")"
  THEN SubSeq(e, 3, Len(e) - 1)
  ELSE <<"*">> \o e

\* C28: for every index n >= 0 and either value of codegen_scalars, workel(n)
\* is the object work(n, 1) points to; for n < 0 work and workel are "0", and
\* so is work for size 0.
C28_WorkelIsWorkTarget ==
  /\ AsVector => Deref(last.ret) = Workel(last.arg[1])
  /\ AsElement => last.ret = Deref(Work(last.arg, 1))
  /\ (last.op = "work" /\ (last.arg[1] < 0 \/ last.arg[2] = 0)) => last.ret = <<"0">>
  /\ (last.op = "workel" /\ last.arg < 0) => last.ret = <<"0">>

\* the address of a scalar temporary under the default options
C28_Witness ==
  /\ AsVector /\ ~codegen_scalars /\ last.arg[1] = 3
  /\ last.ret = <<"(", "&", "w", "3", ")">> /\ Workel(3) = <<"w", "3">>
\* the element behind a pointer with codegen_scalars set
C28_WitnessPointer ==
  /\ AsElement /\ codegen_scalars /\ last.arg = 3
  /\ last.ret = <<"*", "w", "3">> /\ Work(3, 1) = <<"w", "3">>
\* a negative index
C28_WitnessNone ==
  /\ last.op = "workel" /\ last.arg < 0 /\ last.ret = <<"0">>


(***************************************************************************)
(* Claims about the files of a compile.                                    *)
(***************************************************************************)
\* the words of a command line, split at its blanks
RECURSIVE Words(_)
Words(cmd) ==
  IF \A i \in 1..Len(cmd) : cmd[i] # " " THEN <<cmd>>
  ELSE LET at == CHOOSE i \in 1..Len(cmd) :
                   cmd[i] = " " /\ \A j \in 1..(i - 1) : cmd[j] # " "
       IN  <<SubSeq(cmd, 1, at - 1)>> \o Words(SubSeq(cmd, at + 1, Len(cmd)))
\* the source file of a build command: the word before -o
BuildSource(cmd) ==
  LET w == Words(cmd)
  IN  w[(CHOOSE i \in 1..Len(w) : w[i] = <<"-", "o">>) - 1]
\* the files a removal command names: the words after rm -rf
RemovedFiles(cmd) ==
  LET w == Words(cmd) IN {w[i] : i \in 3..Len(w)}
\* a compile that got as far as writing the artifact
Wrote == Compiled /\ Len(last.calls) = 3

\* C29 as stated: whenever compile writes the artifact, for names with and
\* without a dot, the source file of the build command is a file the render
\* has just written and one the removal deleted.
C29_Original ==
  Wrote =>
    /\ BuildSource(last.calls[3].cmd) \in DOMAIN last.calls[2].files
    /\ BuildSource(last.calls[3].cmd) \in RemovedFiles(last.calls[1].cmd)

\* C29: whenever compile writes the artifact, the source file of the build
\* command is the name with .c or .cpp appended, by the cpp option, and the
\* removal deleted it; it is the file the render wrote exactly when the name
\* has no dot, a name with a dot being rendered to the name itself, which is
\* neither removed nor built.
C29_BuildSource ==
  Wrote =>
    LET name == last.arg[1]
        source == BuildSource(last.calls[3].cmd)
    IN  /\ source = name \o DefaultExtension
        /\ source \in RemovedFiles(last.calls[1].cmd)
        /\ source \in DOMAIN last.calls[2].files <=> ~HasDot(name)
        /\ HasDot(name) =>
             /\ name \in DOMAIN last.calls[2].files
             /\ name \notin RemovedFiles(last.calls[1].cmd)

\* compile("g.cxx") builds g.cxx.c after writing g.cxx
C29_Witness ==
  /\ Wrote /\ last.arg[1] = <<"g", ".", "c", "x", "x">> /\ ~cpp
  /\ BuildSource(last.calls[3].cmd) = <<"g", ".", "c", "x", "x", ".", "c">>
  /\ <<"g", ".", "c", "x", "x">> \in DOMAIN last.calls[2].files
\* compile("f") with cpp set builds the f.cpp it wrote
C29_WitnessPlain ==
  /\ Wrote /\ last.arg[1] = <<"f">> /\ cpp /\ last.err = NoError
  /\ BuildSource(last.calls[3].cmd) = <<"f", ".", "c", "p", "p">>
  /\ <<"f", ".", "c", "p", "p">> \in DOMAIN last.calls[2].files


(***************************************************************************)
(* Claims about the slots of the registry.                                 *)
(***************************************************************************)
PatternSlot(sp) == added_sparsities_[sp]
RegisteredPatterns == DOMAIN added_sparsities_

\* C30: the slot recorded for every registered pattern is the slot of the
\* integer pool that holds its compressed form, the first slot that vector was
\* given; two pattern objects with one structure have two entries and one
\* slot, and a pattern whose compressed form was requested before as an
\* integer constant has that constant's slot.
C30_SlotHoldsCompressedForm ==
  /\ \A sp \in RegisteredPatterns :
       /\ PatternSlot(sp) \in 0..(Len(integer_constants_) - 1)
       /\ integer_constants_[PatternSlot(sp) + 1] = compress(sp)
       /\ compress(sp) \in DOMAIN first_int
       /\ PatternSlot(sp) = first_int[compress(sp)]
  /\ \A sp \in RegisteredPatterns, other \in RegisteredPatterns :
       compress(sp) = compress(other) => PatternSlot(sp) = PatternSlot(other)

\* spA and spB, two objects with one structure, after other constants
C30_Witness ==
  /\ {"spA", "spB"} \subseteq RegisteredPatterns
  /\ PatternSlot("spA") = PatternSlot("spB") /\ PatternSlot("spA") > 0
  /\ last.op = "addSparsity" /\ last.calls # << >>
\* spA is registered only now, and its slot lies before that of a constant
\* requested earlier: its compressed form was in the pool as a constant
C30_WitnessConstant ==
  /\ last.op = "addSparsity" /\ last.arg = "spA" /\ last.calls # << >>
  /\ RegisteredPatterns = {"spA"}
  /\ integer_constants_ = << <<1, 1, 0, 1, 0>>, <<1>> >>
  /\ PatternSlot("spA") = 0

====
